---- MODULE Spec2Model ----
(***************************************************************************)
(* Model of the test-case execution engine (TestEngine): validation, mode  *)
(* selection, Sequential mode, DAG mode, the per-step procedure            *)
(* executeTestStep and the conditional guard.  Every `await` of the code   *)
(* is a point where another continuation may run; the code between two     *)
(* awaits is one atomic action.                                            *)
(***************************************************************************)
EXTENDS Integers, Sequences, FiniteSets, TLC

\* ------------------------------------------------------------------ bounds
MaxSteps == 3

MaxValidatorSteps == 2

Ids == 1..MaxSteps

\* ------------------------------------------------------- values of the code
\* StepStatus enum; "none" is a key the stepStates map does not hold.
PENDING == "pending"
RUNNING == "running"
FINISHED == "finished"
FAILED == "failed"
SKIPPED == "skipped"

TerminalStatus == {FINISHED, FAILED, SKIPPED}

\* Values of step.if; "none" is an absent `if`.
validConditions == {"always()", "success()", "failure()"}

IfValues == {"none"} \cup validConditions

\* Action kinds: one the ActionRegistry holds, one it does not.
Kinds == {"Nop", "Unknown"}

Registered == {"Nop"}

\* context.testSuccess as the caller passes it: the boolean true, or no
\* such key at all (undefined).
TRUEV == "true"
FALSEV == "false"
UNDEFINED == "undefined"

\* JavaScript truthiness of the three values above.
Truthy(v) == v = TRUEV

\* JavaScript `!v`.
Not(v) == IF Truthy(v) THEN FALSEV ELSE TRUEV

\* An ActionResult {success, output}.  The output is kept as a tag.
Absent == [success |-> FALSE, output |-> "absent"]

ActionOk == [success |-> TRUE, output |-> "value"]

ActionFail == [success |-> FALSE, output |-> "failure"]

SkippedResult == [success |-> TRUE, output |-> "SKIPPED"]

DependencyFailed(d) == [success |-> FALSE, output |-> "dependency_failed", dependency |-> d]

ErrorResult(msg) == [success |-> FALSE, output |-> "error", error |-> msg]

\* What an awaited call can do: resolve, or reject with an error.
ReporterOutcomes == {"ok", "raise"}

ActionOutcomes == {"ok", "fail", "raise"}

\* ---------------------------------------------------------------- state
VARIABLES
  testCase,           \* testCase.step: Seq of [id, if, depends_on, kind]
  testSuccess,        \* executionContext.testSuccess
  stepStates,         \* Map<string, StepState>:  id -> [status, result]
  stepResults,        \* Map<string, ActionResult>: id -> result or Absent
  overallTestSuccess, \* local of executeSteps*
  executingSteps,     \* Set<string> of executeStepsWithDependencies
  enginePc,           \* where executeTestCase is
  cur,                \* index of the for-loop of executeStepsSequentially
  raceSet,            \* the promises of the pending Promise.race
  stepPc,             \* id -> the await executeTestStep / the wrapper is at
  stepRet,            \* id -> the result the try block of executeTestStep holds
  stepErr,            \* id -> message of the error in flight
  verdict,            \* the boolean executeTestCase returned
  obs,                \* id -> what was observed when the guard was evaluated
  invoked,            \* id -> number of action.execute calls
  stepEvents,         \* id -> reporter calls made for the step, in order
  runnerPc,           \* where runTests is with this test case
  testEvents,         \* reportTestStart / reportTestEnd calls made, in order
  thrown,             \* the Error executeTestCase threw, or NoError
  currentSteps,       \* AllureReporter.currentSteps
  written,            \* the steps of the test result AllureReporter wrote
  params,             \* the structure processStepVariables is given
  execContext,        \* its context: testCaseId, testCaseName, stepResults
  processed,          \* what processStepVariables returned, call after call
  expected,           \* the expected value AssertionEngine.resolveVariables is given
  resolvedExpected,   \* what it returned for `expected`
  assertionActual,    \* the actual value AssertionEngine.evaluateAssertions is given
  assertionResults,   \* <<the AssertionResult[] it returned>>, <<>> before the call
  assertionSuccess,   \* `success` of RESTApiExecutor.execute
  environment,        \* process.env: name -> value, or Absent
  configData,         \* Config.instance.config
  configKey,          \* the key Config.get is called with
  configValue,        \* <<what Config.get returned>>, <<>> before the call
  actions,            \* ActionRegistry.instance.actions: kind -> Action, or Absent
  registerCalls,      \* the calls of ActionRegistry.register made, with their outcome
  allActions          \* the Map ActionRegistry.getAll returned, in its caller's hands

vars == <<testCase, testSuccess, stepStates, stepResults, overallTestSuccess,
          executingSteps, enginePc, cur, raceSet, stepPc, stepRet, stepErr,
          verdict, obs, invoked, stepEvents, runnerPc, testEvents, thrown, currentSteps, written,
          params, execContext, processed, expected, resolvedExpected,
          assertionActual, assertionResults, assertionSuccess,
          environment, configData, configKey, configValue,
          actions, registerCalls, allActions>>

\* The variables of the value resolver and of the assertion engine; no
\* step of the engine above runs them on more than the empty input.
assertionVars == <<assertionActual, assertionResults, assertionSuccess>>

configVars == <<environment, configData, configKey, configValue>>

registryVars == <<actions, registerCalls, allActions>>

resolverVars ==
  <<params, execContext, processed, expected, resolvedExpected,
    assertionVars, configVars, registryVars>>

NoAssertionCall ==
  /\ assertionActual = "none"
  /\ assertionResults = <<>>
  /\ assertionSuccess = "none"

NoConfigCall ==
  /\ environment = "none"
  /\ configData = "none"
  /\ configKey = <<>>
  /\ configValue = <<>>

NoRegistryCall ==
  /\ actions = "none"
  /\ registerCalls = <<>>
  /\ allActions = "none"

NoResolverCall ==
  /\ params = "none"
  /\ execContext = "none"
  /\ processed = <<>>
  /\ expected = "none"
  /\ resolvedExpected = "none"
  /\ NoAssertionCall
  /\ NoConfigCall
  /\ NoRegistryCall

\* ------------------------------------------------------------- test cases
NSteps == Len(testCase)

StepIdsOf(tc) == {tc[i].id : i \in 1..Len(tc)}

\* testCase.step.find(s => s.id === stepId)
IndexOfIn(tc, id) == CHOOSE i \in 1..Len(tc) : tc[i].id = id /\ \A j \in 1..(i-1) : tc[j].id # id

StepById(id) == testCase[IndexOfIn(testCase, id)]

HasDeps(step) == step.depends_on # {}

\* validateDependencies: unique ids, every dependency exists and is
\* defined above the step that names it.
DuplicateIds(tc) == {tc[i].id : i \in {k \in 1..Len(tc) : \E j \in 1..(k-1) : tc[j].id = tc[k].id}}

\* stepIdToIndex: a later step of the same id overwrites the earlier one.
StepIdToIndex(tc, id) == CHOOSE i \in 1..Len(tc) : tc[i].id = id /\ \A j \in (i+1)..Len(tc) : tc[j].id # id

\* !stepIdToIndex.has(dependency)
MissingDependency(tc, d) == d \notin StepIdsOf(tc)

\* The ordering test with `>` for `>=`: a step may name itself.
LaterDependency_SelfAllowed(tc, i, d) == StepIdToIndex(tc, d) > i

\* dependencyIndex >= i
LaterDependency(tc, i, d) == StepIdToIndex(tc, d) >= i

BadDependency(tc, i, d) == MissingDependency(tc, d) \/ LaterDependency(tc, i, d)

validateDependencies(tc) ==
  /\ DuplicateIds(tc) = {}
  /\ \A i \in 1..Len(tc) : \A d \in tc[i].depends_on : ~BadDependency(tc, i, d)

\* validateIfConditions: step.if.toLowerCase().trim() is a valid condition.
LowerTrim(s) ==
  CASE s \in {"always()", "ALWAYS()", " Always() "} -> "always()"
    [] s \in {"success()", "SUCCESS()", " Success() "} -> "success()"
    [] s \in {"failure()", "FAILURE()", " Failure() "} -> "failure()"
    [] OTHER -> s

validateIfConditions(tc) ==
  \A i \in 1..Len(tc) : tc[i].if # "none" => LowerTrim(tc[i].if) \in validConditions

\* The Error a validation throws: the check that failed, the index of the
\* step and the dependency its message names, and the ids it lists.
NoError == [check |-> "none", step |-> 0, dep |-> 0, ids |-> {}]

DuplicateError(ids) == [check |-> "duplicate", step |-> 0, dep |-> 0, ids |-> ids]

MissingError(i, d) == [check |-> "missing", step |-> i, dep |-> d, ids |-> {}]

OrderError(i, d) == [check |-> "order", step |-> i, dep |-> d, ids |-> {}]

IfError(i) == [check |-> "if", step |-> i, dep |-> 0, ids |-> {}]

\* The body of the loop over step.depends_on for one dependency.
DependencyError(tc, i, d) ==
  IF MissingDependency(tc, d) THEN MissingError(i, d)
  ELSE IF LaterDependency(tc, i, d) THEN OrderError(i, d)
  ELSE NoError

\* The loop over the dependencies of step i (listed in ascending order) from
\* d on, then over the steps after i: the first throw ends it.
RECURSIVE DependencyLoop(_, _, _)
DependencyLoop(tc, i, d) ==
  IF i > Len(tc) THEN NoError
  ELSE LET rest == {e \in tc[i].depends_on : e >= d}
       IN IF rest = {} THEN DependencyLoop(tc, i + 1, 0)
          ELSE LET e == CHOOSE x \in rest : \A y \in rest : x <= y
               IN IF DependencyError(tc, i, e) # NoError THEN DependencyError(tc, i, e)
                  ELSE DependencyLoop(tc, i, e + 1)

\* validateDependencies as the error it throws.
DependenciesError(tc) ==
  IF DuplicateIds(tc) # {} THEN DuplicateError(DuplicateIds(tc))
  ELSE DependencyLoop(tc, 1, 0)

\* validateIfConditions as the error it throws.
RECURSIVE IfConditionsError(_, _)
IfConditionsError(tc, i) ==
  IF i > Len(tc) THEN NoError
  ELSE IF tc[i].if # "none" /\ LowerTrim(tc[i].if) \notin validConditions THEN IfError(i)
  ELSE IfConditionsError(tc, i + 1)

\* The two validations in the other order.
ValidationError_IfFirst(tc) ==
  IF IfConditionsError(tc, 1) # NoError THEN IfConditionsError(tc, 1)
  ELSE DependenciesError(tc)

\* The first two statements of executeTestCase.
ValidationError(tc) ==
  IF DependenciesError(tc) # NoError THEN DependenciesError(tc)
  ELSE IfConditionsError(tc, 1)

\* ------------------------------------------------------------------ guard
\* A guard that treats always() like success().
shouldExecuteStep_AlwaysAsSuccess(step, currentTestSuccess) ==
  IF step.if = "none" THEN currentTestSuccess
  ELSE CASE LowerTrim(step.if) = "always()" -> currentTestSuccess
         [] LowerTrim(step.if) = "success()" -> currentTestSuccess
         [] LowerTrim(step.if) = "failure()" -> Not(currentTestSuccess)

\* shouldExecuteStep(step, currentTestSuccess): the value it returns.
shouldExecuteStep(step, currentTestSuccess) ==
  IF step.if = "none" THEN currentTestSuccess
  ELSE CASE LowerTrim(step.if) = "always()" -> TRUEV
         [] LowerTrim(step.if) = "success()" -> currentTestSuccess
         [] LowerTrim(step.if) = "failure()" -> Not(currentTestSuccess)

\* A test that lets every step through, whatever its dependencies did.
canExecuteStep_NoWait(step, states) == TRUE

\* canExecuteStep(step, stepStates)
canExecuteStep(step, states) ==
  \/ step.depends_on = {}
  \/ \A d \in step.depends_on : states[d].status = FINISHED

\* -------------------------------------------------------------- inputs
\* The test cases an execution starts from: the loader has given step i the
\* id i; a step may name any step up to itself in depends_on (naming itself
\* is what the validator rejects).
StepsAt(i) == [id : {i}, if : IfValues, depends_on : SUBSET (1..i), kind : Kinds]

TestCasesOfLen(n) == {tc \in [1..n -> UNION {StepsAt(i) : i \in 1..n}] : \A i \in 1..n : tc[i] \in StepsAt(i)}

TestCases == UNION {TestCasesOfLen(n) : n \in 1..MaxSteps}

NoObs == [evaluated |-> FALSE, ts |-> UNDEFINED, ran |-> FALSE, depsPresent |-> FALSE, failedThen |-> FALSE]

Init ==
  /\ testCase \in TestCases
  /\ testSuccess \in {TRUEV, UNDEFINED}
  /\ stepStates = [id \in Ids |-> [status |-> "none", result |-> Absent]]
  /\ stepResults = [id \in Ids |-> Absent]
  /\ overallTestSuccess = TRUE
  /\ executingSteps = {}
  /\ enginePc = "validate"
  /\ cur = 1
  /\ raceSet = {}
  /\ stepPc = [id \in Ids |-> "idle"]
  /\ stepRet = [id \in Ids |-> Absent]
  /\ stepErr = [id \in Ids |-> "none"]
  /\ verdict = "none"
  /\ obs = [id \in Ids |-> NoObs]
  /\ invoked = [id \in Ids |-> 0]
  /\ stepEvents = [id \in Ids |-> <<>>]
  /\ runnerPc = "start"
  /\ testEvents = <<>>
  /\ thrown = NoError
  /\ currentSteps = <<>>
  /\ written = <<>>
  /\ NoResolverCall

\* ------------------------------------------------------------- runTests
\* The body of the for-loop of runTests for one test file.  The context is
\* built and reporter.reportTestStart is called.
RunnerReportTestStart ==
  /\ runnerPc = "start"
  /\ testEvents' = Append(testEvents, "testStart")
  /\ runnerPc' = "awaitTestStart"
  /\ UNCHANGED <<resolverVars, written, currentSteps, thrown, testCase, testSuccess, stepStates, stepResults, overallTestSuccess,
                 executingSteps, enginePc, cur, raceSet, stepPc, stepRet, stepErr,
                 verdict, obs, invoked, stepEvents>>

\* await reporter.reportTestStart(...) completes: engine.executeTestCase is
\* called, or the error goes to the outer catch, which exits the process.
ReportTestStartDone ==
  /\ runnerPc = "awaitTestStart"
  /\ \E o \in ReporterOutcomes : runnerPc' = IF o = "ok" THEN "inEngine" ELSE "exited"
  /\ UNCHANGED <<resolverVars, written, currentSteps, thrown, testCase, testSuccess, stepStates, stepResults, overallTestSuccess,
                 executingSteps, enginePc, cur, raceSet, stepPc, stepRet, stepErr,
                 verdict, obs, invoked, stepEvents, testEvents>>

TestEndEvent(allPassed) == IF allPassed = "true" THEN "testEnd:true" ELSE "testEnd:false"

\* await engine.executeTestCase(...) resumes with allPassed: reportTestEnd is
\* called with it.
RunnerEngineReturned ==
  /\ runnerPc = "inEngine"
  /\ enginePc = "returned"
  /\ testEvents' = Append(testEvents, TestEndEvent(verdict))
  /\ runnerPc' = "awaitTestEnd"
  /\ UNCHANGED <<resolverVars, written, currentSteps, thrown, testCase, testSuccess, stepStates, stepResults, overallTestSuccess,
                 executingSteps, enginePc, cur, raceSet, stepPc, stepRet, stepErr,
                 verdict, obs, invoked, stepEvents>>

\* await engine.executeTestCase(...) throws: the catch of the for-loop body
\* calls reportTestEnd(id, false).
RunnerEngineRejected ==
  /\ runnerPc = "inEngine"
  /\ enginePc = "configError"
  /\ testEvents' = Append(testEvents, TestEndEvent("false"))
  /\ runnerPc' = "awaitTestEndCatch"
  /\ UNCHANGED <<resolverVars, written, currentSteps, thrown, testCase, testSuccess, stepStates, stepResults, overallTestSuccess,
                 executingSteps, enginePc, cur, raceSet, stepPc, stepRet, stepErr,
                 verdict, obs, invoked, stepEvents>>

\* await reporter.reportTestEnd(id, allPassed) of the try block completes.  A
\* raise is caught by the catch of the same try, which calls reportTestEnd
\* again.
ReportTestEndDone ==
  /\ runnerPc = "awaitTestEnd"
  /\ \E o \in ReporterOutcomes :
       IF o = "ok"
       THEN /\ runnerPc' = "done"
            /\ UNCHANGED testEvents
       ELSE /\ runnerPc' = "awaitTestEndCatch"
            /\ testEvents' = Append(testEvents, TestEndEvent("false"))
  /\ UNCHANGED <<resolverVars, written, currentSteps, thrown, testCase, testSuccess, stepStates, stepResults, overallTestSuccess,
                 executingSteps, enginePc, cur, raceSet, stepPc, stepRet, stepErr,
                 verdict, obs, invoked, stepEvents>>

\* await reporter.reportTestEnd(id, false) of the catch block completes; a
\* raise goes to the outer catch, which exits the process.
ReportTestEndCatchDone ==
  /\ runnerPc = "awaitTestEndCatch"
  /\ \E o \in ReporterOutcomes : runnerPc' = IF o = "ok" THEN "done" ELSE "exited"
  /\ UNCHANGED <<resolverVars, written, currentSteps, thrown, testCase, testSuccess, stepStates, stepResults, overallTestSuccess,
                 executingSteps, enginePc, cur, raceSet, stepPc, stepRet, stepErr,
                 verdict, obs, invoked, stepEvents, testEvents>>

\* ------------------------------------------------------ executeTestCase
\* executeTestCase up to the call of executeSteps*: validation throws, or the
\* maps are initialised and the mode is selected.
hasStepsWithDependencies == \E i \in 1..NSteps : HasDeps(testCase[i])

ExecuteTestCaseRejects ==
  /\ runnerPc = "inEngine"
  /\ enginePc = "validate"
  /\ ~(validateDependencies(testCase) /\ validateIfConditions(testCase))
  /\ enginePc' = "configError"
  /\ thrown' = ValidationError(testCase)
  /\ UNCHANGED <<resolverVars, written, currentSteps, runnerPc, testEvents, testCase, testSuccess, stepStates, stepResults, overallTestSuccess,
                 executingSteps, cur, raceSet, stepPc, stepRet, stepErr, verdict,
                 obs, invoked, stepEvents>>

ExecuteTestCaseStarts ==
  /\ runnerPc = "inEngine"
  /\ enginePc = "validate"
  /\ validateDependencies(testCase)
  /\ validateIfConditions(testCase)
  /\ stepStates' = [id \in Ids |-> IF id \in StepIdsOf(testCase)
                                   THEN [status |-> PENDING, result |-> Absent]
                                   ELSE stepStates[id]]
  /\ stepResults' = [id \in Ids |-> Absent]
  /\ enginePc' = IF hasStepsWithDependencies THEN "dag" ELSE "sequential"
  /\ UNCHANGED <<resolverVars, written, currentSteps, thrown, runnerPc, testEvents, testCase, testSuccess, overallTestSuccess, executingSteps, cur,
                 raceSet, stepPc, stepRet, stepErr, verdict, obs, invoked, stepEvents>>

\* ------------------------------------------------------ executeTestStep
\* The synchronous head of executeTestStep(context, id): the resolver runs
\* over stepResults, the guard is evaluated on context.testSuccess and the
\* first reporter call is made.
StatusOfResult(result) == IF result.success THEN FINISHED ELSE FAILED

\* testSuccess assigned the success of the last result.
TestSuccessAfter_Assigned(ts, result) == IF result.success THEN TRUEV ELSE FALSEV

\* if (!result.success) executionContext.testSuccess = false
TestSuccessAfter(ts, result) == IF ~result.success THEN FALSEV ELSE ts

\* The returned failure of a step left out of the aggregate.
OverallAfter_Ignored(overall, result) == overall

\* if (!result.success) overallTestSuccess = false
OverallAfter(overall, result) == IF ~result.success THEN FALSE ELSE overall

\* A head that calls reportStepStart before it looks at the guard.
ExecuteTestStepHead_StartBeforeGuard(id, ts, results, states) ==
  LET step == StepById(id)
      run == Truthy(shouldExecuteStep(step, ts))
  IN [pc |-> IF run THEN "awaitStart" ELSE "awaitSkipped",
      event |-> "stepStart",
      obs |-> [evaluated |-> TRUE, ts |-> ts, ran |-> run,
               depsPresent |-> \A d \in step.depends_on : results[d] # Absent,
               failedThen |-> \E t \in Ids : states[t].status = FAILED]]

ExecuteTestStepHead(id, ts, results, states) ==
  LET step == StepById(id)
      run == Truthy(shouldExecuteStep(step, ts))
  IN [pc |-> IF run THEN "awaitStart" ELSE "awaitSkipped",
      event |-> IF run THEN "stepStart" ELSE "stepSkipped",
      obs |-> [evaluated |-> TRUE, ts |-> ts, ran |-> run,
               depsPresent |-> \A d \in step.depends_on : results[d] # Absent,
               failedThen |-> \E t \in Ids : states[t].status = FAILED]]

\* await reporter.reportStepSkipped(...) completes.
ReportStepSkippedDone(id) ==
  /\ stepPc[id] = "awaitSkipped"
  /\ \E o \in ReporterOutcomes :
       IF o = "ok"
       THEN /\ stepPc' = [stepPc EXCEPT ![id] = "resolved"]
            /\ stepRet' = [stepRet EXCEPT ![id] = SkippedResult]
            /\ UNCHANGED stepErr
       ELSE /\ stepPc' = [stepPc EXCEPT ![id] = "rejected"]
            /\ stepErr' = [stepErr EXCEPT ![id] = "reporter"]
            /\ UNCHANGED stepRet
  /\ UNCHANGED <<resolverVars, written, currentSteps, thrown, runnerPc, testEvents, testCase, testSuccess, stepStates, stepResults, overallTestSuccess,
                 executingSteps, enginePc, cur, raceSet, verdict, obs, invoked, stepEvents>>

\* await reporter.reportStepStart(...) completes; the registry is consulted
\* and action.execute is called.
ReportStepStartDone(id) ==
  /\ stepPc[id] = "awaitStart"
  /\ \E o \in ReporterOutcomes :
       IF o = "raise"
       THEN /\ stepPc' = [stepPc EXCEPT ![id] = "rejected"]
            /\ stepErr' = [stepErr EXCEPT ![id] = "reporter"]
            /\ UNCHANGED invoked
       ELSE IF StepById(id).kind \notin Registered
       THEN /\ stepPc' = [stepPc EXCEPT ![id] = "rejected"]
            /\ stepErr' = [stepErr EXCEPT ![id] = "unknown_kind"]
            /\ UNCHANGED invoked
       ELSE /\ stepPc' = [stepPc EXCEPT ![id] = "awaitAction"]
            /\ invoked' = [invoked EXCEPT ![id] = @ + 1]
            /\ UNCHANGED stepErr
  /\ UNCHANGED <<resolverVars, written, currentSteps, thrown, runnerPc, testEvents, testCase, testSuccess, stepStates, stepResults, overallTestSuccess,
                 executingSteps, enginePc, cur, raceSet, stepRet, verdict, obs, stepEvents>>

\* await action.execute(processedStep) completes: the result (or the wrapped
\* exception) is stored and reportStepEnd is called.
ActionDone(id) ==
  /\ stepPc[id] = "awaitAction"
  /\ \E o \in ActionOutcomes :
       LET result == CASE o = "ok" -> ActionOk
                       [] o = "fail" -> ActionFail
                       [] o = "raise" -> ErrorResult("action")
       IN /\ stepResults' = [stepResults EXCEPT ![id] = result]
          /\ stepRet' = [stepRet EXCEPT ![id] = result]
          /\ stepEvents' = [stepEvents EXCEPT ![id] = Append(@, IF result.success THEN "stepEnd:true" ELSE "stepEnd:false")]
          /\ stepPc' = [stepPc EXCEPT ![id] = IF o = "raise" THEN "awaitEndCatch" ELSE "awaitEnd"]
  /\ UNCHANGED <<resolverVars, written, currentSteps, thrown, runnerPc, testEvents, testCase, testSuccess, stepStates, overallTestSuccess, executingSteps,
                 enginePc, cur, raceSet, stepErr, verdict, obs, invoked>>

\* await reporter.reportStepEnd(...) of the try block completes.  A raise is
\* caught by the catch of the same try: the step's entry is overwritten with
\* the wrapped error and reportStepEnd is called again.
ReportStepEndDone(id) ==
  /\ stepPc[id] = "awaitEnd"
  /\ \E o \in ReporterOutcomes :
       IF o = "ok"
       THEN /\ testSuccess' = TestSuccessAfter(testSuccess, stepRet[id])
            /\ stepPc' = [stepPc EXCEPT ![id] = "resolved"]
            /\ UNCHANGED <<stepResults, stepRet, stepEvents>>
       ELSE /\ stepResults' = [stepResults EXCEPT ![id] = ErrorResult("reporter")]
            /\ stepRet' = [stepRet EXCEPT ![id] = ErrorResult("reporter")]
            /\ stepEvents' = [stepEvents EXCEPT ![id] = Append(@, "stepEnd:false")]
            /\ stepPc' = [stepPc EXCEPT ![id] = "awaitEndCatch"]
            /\ UNCHANGED testSuccess
  /\ UNCHANGED <<resolverVars, written, currentSteps, thrown, runnerPc, testEvents, testCase, stepStates, overallTestSuccess, executingSteps, enginePc,
                 cur, raceSet, stepErr, verdict, obs, invoked>>

\* await reporter.reportStepEnd(...) of the catch block completes.
ReportStepEndCatchDone(id) ==
  /\ stepPc[id] = "awaitEndCatch"
  /\ \E o \in ReporterOutcomes :
       IF o = "ok"
       THEN /\ testSuccess' = FALSEV
            /\ stepPc' = [stepPc EXCEPT ![id] = "resolved"]
            /\ UNCHANGED stepErr
       ELSE /\ stepPc' = [stepPc EXCEPT ![id] = "rejected"]
            /\ stepErr' = [stepErr EXCEPT ![id] = "reporter"]
            /\ UNCHANGED testSuccess
  /\ UNCHANGED <<resolverVars, written, currentSteps, thrown, runnerPc, testEvents, testCase, stepStates, stepResults, overallTestSuccess, executingSteps,
                 enginePc, cur, raceSet, stepRet, verdict, obs, invoked, stepEvents>>

\* ------------------------------------------------ executeStepsSequentially
\* The for-loop calls executeTestStep for the step at `cur`.
SeqCallStep ==
  /\ enginePc = "sequential"
  /\ cur <= NSteps
  /\ LET id == testCase[cur].id
         head == ExecuteTestStepHead(id, testSuccess, stepResults, stepStates)
     IN /\ stepPc[id] = "idle"
        /\ stepPc' = [stepPc EXCEPT ![id] = head.pc]
        /\ obs' = [obs EXCEPT ![id] = head.obs]
        /\ stepEvents' = [stepEvents EXCEPT ![id] = Append(@, head.event)]
  /\ UNCHANGED <<resolverVars, written, currentSteps, thrown, runnerPc, testEvents, testCase, testSuccess, stepStates, stepResults, overallTestSuccess,
                 executingSteps, enginePc, cur, raceSet, stepRet, stepErr, verdict, invoked>>

\* `await this.executeTestStep(...)` resumes with the result.
SeqStepResolved ==
  /\ enginePc = "sequential"
  /\ cur <= NSteps
  /\ LET id == testCase[cur].id
         result == stepRet[id]
     IN /\ stepPc[id] = "resolved"
        /\ stepStates' = [stepStates EXCEPT ![id] = [status |-> StatusOfResult(result), result |-> result]]
        /\ overallTestSuccess' = OverallAfter(overallTestSuccess, result)
        /\ testSuccess' = TestSuccessAfter(testSuccess, result)
        /\ stepPc' = [stepPc EXCEPT ![id] = "done"]
  /\ cur' = cur + 1
  /\ UNCHANGED <<resolverVars, written, currentSteps, thrown, runnerPc, testEvents, testCase, stepResults, executingSteps, enginePc, raceSet, stepRet,
                 stepErr, verdict, obs, invoked, stepEvents>>

\* A catch that leaves the for-loop after it has recorded the failure.
SeqStepRejected_Halts ==
  /\ enginePc = "sequential"
  /\ cur <= NSteps
  /\ LET id == testCase[cur].id
         errorResult == ErrorResult(stepErr[id])
     IN /\ stepPc[id] = "rejected"
        /\ stepStates' = [stepStates EXCEPT ![id] = [status |-> FAILED, result |-> errorResult]]
        /\ stepResults' = [stepResults EXCEPT ![id] = errorResult]
        /\ stepPc' = [stepPc EXCEPT ![id] = "done"]
  /\ overallTestSuccess' = FALSE
  /\ testSuccess' = FALSEV
  /\ cur' = NSteps + 1
  /\ UNCHANGED <<resolverVars, written, currentSteps, thrown, runnerPc, testEvents, testCase, executingSteps, enginePc, raceSet, stepRet, stepErr,
                 verdict, obs, invoked, stepEvents>>

\* `await this.executeTestStep(...)` throws: the catch of the for-loop body.
SeqStepRejected ==
  /\ enginePc = "sequential"
  /\ cur <= NSteps
  /\ LET id == testCase[cur].id
         errorResult == ErrorResult(stepErr[id])
     IN /\ stepPc[id] = "rejected"
        /\ stepStates' = [stepStates EXCEPT ![id] = [status |-> FAILED, result |-> errorResult]]
        /\ stepResults' = [stepResults EXCEPT ![id] = errorResult]
        /\ stepPc' = [stepPc EXCEPT ![id] = "done"]
  /\ overallTestSuccess' = FALSE
  /\ testSuccess' = FALSEV
  /\ cur' = cur + 1
  /\ UNCHANGED <<resolverVars, written, currentSteps, thrown, runnerPc, testEvents, testCase, executingSteps, enginePc, raceSet, stepRet, stepErr,
                 verdict, obs, invoked, stepEvents>>

\* The for-loop is over: return overallTestSuccess.
VerdictOf(overall) == IF overall THEN "true" ELSE "false"

SeqReturn ==
  /\ enginePc = "sequential"
  /\ cur > NSteps
  /\ enginePc' = "returned"
  /\ verdict' = VerdictOf(overallTestSuccess)
  /\ UNCHANGED <<resolverVars, written, currentSteps, thrown, runnerPc, testEvents, testCase, testSuccess, stepStates, stepResults, overallTestSuccess,
                 executingSteps, cur, raceSet, stepPc, stepRet, stepErr, obs, invoked,
                 stepEvents>>

\* -------------------------------------------- executeStepsWithDependencies
\* readySteps, in the order of testCase.step.
\* A filter that does not look at the status of the step.
IsReady_IgnoresStatus(step, states, executing) ==
  /\ canExecuteStep(step, states)
  /\ step.id \notin executing

\* A filter that takes a failed step again, as a retry would.
IsReady_FailedRetried(step, states, executing) ==
  /\ states[step.id].status \in {PENDING, FAILED}
  /\ canExecuteStep(step, states)
  /\ step.id \notin executing

IsReady(step, states, executing) ==
  /\ states[step.id].status = PENDING
  /\ canExecuteStep(step, states)
  /\ step.id \notin executing

\* An admission limit of one: only the first ready step is taken.
ReadyIndexes_OneAtATime ==
  LET all == {i \in 1..NSteps : IsReady(testCase[i], stepStates, executingSteps)}
  IN {i \in all : \A j \in all : i <= j}

ReadyIndexes == {i \in 1..NSteps : IsReady(testCase[i], stepStates, executingSteps)}

\* The dependencies of a step whose recorded result has success = false; the
\* for-loop over depends_on stops at the first one.
FailedDependencies(step, states) ==
  {d \in step.depends_on : states[d].result # Absent /\ ~states[d].result.success}

FirstOf(S) == CHOOSE d \in S : \A e \in S : d <= e

\* The synchronous head of one stepPromises callback: up to its first await.
\* st is the record of the variables the callback writes.
StartStep(st, id) ==
  LET step == StepById(id)
      running == [st.stepStates EXCEPT ![id] = [status |-> RUNNING, result |-> Absent]]
      failedDeps == FailedDependencies(step, running)
      failureResult == DependencyFailed(FirstOf(failedDeps))
      head == ExecuteTestStepHead(id, testSuccess, st.stepResults, running)
  IN IF failedDeps # {}
     THEN [st EXCEPT !.executingSteps = @ \cup {id},
                     !.stepStates = [running EXCEPT ![id] = [status |-> FAILED, result |-> failureResult]],
                     !.stepResults = [@ EXCEPT ![id] = failureResult],
                     !.stepEvents = [@ EXCEPT ![id] = Append(@, "stepEnd:false")],
                     !.stepPc = [@ EXCEPT ![id] = "awaitDepEnd"]]
     ELSE [st EXCEPT !.executingSteps = @ \cup {id},
                     !.stepStates = running,
                     !.obs = [@ EXCEPT ![id] = head.obs],
                     !.stepEvents = [@ EXCEPT ![id] = Append(@, head.event)],
                     !.stepPc = [@ EXCEPT ![id] = head.pc]]

\* readySteps.map(async step => ...): the callbacks start in array order.
RECURSIVE StartSteps(_, _, _)
StartSteps(st, i, ready) ==
  IF i > NSteps THEN st
  ELSE StartSteps(IF i \in ready THEN StartStep(st, testCase[i].id) ELSE st, i + 1, ready)

\* The loop may run an iteration: at entry, when the Promise.race of the
\* last iteration has settled, or when the 10 ms timer has fired.
LoopMayRun ==
  \/ enginePc = "dag"
  \/ enginePc = "dag_race" /\ \E id \in raceSet : stepPc[id] = "done"
  \/ enginePc = "dag_sleep"

\* The loop ends as soon as no step is ready, whatever is still running.
allStepsCompleted_IgnoresExecuting(ready, executing) == ready = {}

\* The loop ends only when, besides, every step has a terminal status.
allStepsCompleted_WhenAllTerminal(ready, executing) ==
  /\ ready = {}
  /\ executing = {}
  /\ \A i \in 1..NSteps : stepStates[testCase[i].id].status \in TerminalStatus

\* readySteps.length === 0 && executingSteps.size === 0
allStepsCompleted(ready, executing) == ready = {} /\ executing = {}

\* One iteration of the while loop: up to its await, or to the return.
DagIterate ==
  /\ LoopMayRun
  /\ LET ready == ReadyIndexes
         st == StartSteps([stepStates |-> stepStates, stepResults |-> stepResults,
                           executingSteps |-> executingSteps, obs |-> obs,
                           stepEvents |-> stepEvents, stepPc |-> stepPc], 1, ready)
     IN IF allStepsCompleted(ready, executingSteps)
        THEN /\ enginePc' = "returned"
             /\ verdict' = VerdictOf(overallTestSuccess)
             /\ raceSet' = {}
             /\ UNCHANGED <<stepStates, stepResults, executingSteps, obs, stepEvents, stepPc>>
        ELSE /\ enginePc' = IF ready # {} THEN "dag_race" ELSE "dag_sleep"
             /\ raceSet' = {testCase[i].id : i \in ready}
             /\ verdict' = verdict
             /\ stepStates' = st.stepStates
             /\ stepResults' = st.stepResults
             /\ executingSteps' = st.executingSteps
             /\ obs' = st.obs
             /\ stepEvents' = st.stepEvents
             /\ stepPc' = st.stepPc
  /\ UNCHANGED <<resolverVars, written, currentSteps, thrown, runnerPc, testEvents, testCase, testSuccess, overallTestSuccess, cur, stepRet, stepErr, invoked>>

InDag == enginePc \in {"dag", "dag_race", "dag_sleep"}

\* `await this.executeTestStep(...)` of a callback resumes with the result.
DagStepResolved(id) ==
  /\ InDag
  /\ stepPc[id] = "resolved"
  /\ LET result == stepRet[id]
     IN /\ stepStates' = [stepStates EXCEPT ![id] = [status |-> StatusOfResult(result), result |-> result]]
        /\ overallTestSuccess' = OverallAfter(overallTestSuccess, result)
        /\ testSuccess' = TestSuccessAfter(testSuccess, result)
  /\ executingSteps' = executingSteps \ {id}
  /\ stepPc' = [stepPc EXCEPT ![id] = "done"]
  /\ UNCHANGED <<resolverVars, written, currentSteps, thrown, runnerPc, testEvents, testCase, stepResults, enginePc, cur, raceSet, stepRet, stepErr,
                 verdict, obs, invoked, stepEvents>>

\* A catch that empties stepResults before it stores the error.
DagStepRejected_ClearsResults(id) ==
  /\ InDag
  /\ stepPc[id] = "rejected"
  /\ LET errorResult == ErrorResult(stepErr[id])
     IN /\ stepStates' = [stepStates EXCEPT ![id] = [status |-> FAILED, result |-> errorResult]]
        /\ stepResults' = [t \in Ids |-> IF t = id THEN errorResult ELSE Absent]
  /\ overallTestSuccess' = FALSE
  /\ testSuccess' = FALSEV
  /\ executingSteps' = executingSteps \ {id}
  /\ stepPc' = [stepPc EXCEPT ![id] = "done"]
  /\ UNCHANGED <<resolverVars, written, currentSteps, thrown, runnerPc, testEvents, testCase, enginePc, cur, raceSet, stepRet, stepErr, verdict, obs,
                 invoked, stepEvents>>

\* A catch that leaves overallTestSuccess as it is.
DagStepRejected_KeepsOverall(id) ==
  /\ InDag
  /\ stepPc[id] = "rejected"
  /\ LET errorResult == ErrorResult(stepErr[id])
     IN /\ stepStates' = [stepStates EXCEPT ![id] = [status |-> FAILED, result |-> errorResult]]
        /\ stepResults' = [stepResults EXCEPT ![id] = errorResult]
  /\ testSuccess' = FALSEV
  /\ executingSteps' = executingSteps \ {id}
  /\ stepPc' = [stepPc EXCEPT ![id] = "done"]
  /\ UNCHANGED <<resolverVars, written, currentSteps, thrown, runnerPc, testEvents, testCase, enginePc, cur, raceSet, stepRet, stepErr, verdict, obs,
                 invoked, stepEvents, overallTestSuccess>>

\* `await this.executeTestStep(...)` of a callback throws: its catch, finally.
DagStepRejected(id) ==
  /\ InDag
  /\ stepPc[id] = "rejected"
  /\ LET errorResult == ErrorResult(stepErr[id])
     IN /\ stepStates' = [stepStates EXCEPT ![id] = [status |-> FAILED, result |-> errorResult]]
        /\ stepResults' = [stepResults EXCEPT ![id] = errorResult]
  /\ overallTestSuccess' = FALSE
  /\ testSuccess' = FALSEV
  /\ executingSteps' = executingSteps \ {id}
  /\ stepPc' = [stepPc EXCEPT ![id] = "done"]
  /\ UNCHANGED <<resolverVars, written, currentSteps, thrown, runnerPc, testEvents, testCase, enginePc, cur, raceSet, stepRet, stepErr, verdict, obs,
                 invoked, stepEvents>>

\* await reporter.reportStepEnd(...) of the dependency-failure branch
\* completes; a raise goes to the catch of the callback.
DagDepEndDone(id) ==
  /\ InDag
  /\ stepPc[id] = "awaitDepEnd"
  /\ \E o \in ReporterOutcomes :
       IF o = "ok"
       THEN UNCHANGED <<stepStates, stepResults>>
       ELSE /\ stepStates' = [stepStates EXCEPT ![id] = [status |-> FAILED, result |-> ErrorResult("reporter")]]
            /\ stepResults' = [stepResults EXCEPT ![id] = ErrorResult("reporter")]
  /\ overallTestSuccess' = FALSE
  /\ testSuccess' = FALSEV
  /\ executingSteps' = executingSteps \ {id}
  /\ stepPc' = [stepPc EXCEPT ![id] = "done"]
  /\ UNCHANGED <<resolverVars, written, currentSteps, thrown, runnerPc, testEvents, testCase, enginePc, cur, raceSet, stepRet, stepErr, verdict, obs,
                 invoked, stepEvents>>

\* ------------------------------------------------------- specification
Next ==
  \/ RunnerReportTestStart
  \/ ReportTestStartDone
  \/ RunnerEngineReturned
  \/ RunnerEngineRejected
  \/ ReportTestEndDone
  \/ ReportTestEndCatchDone
  \/ ExecuteTestCaseRejects
  \/ ExecuteTestCaseStarts
  \/ SeqCallStep
  \/ SeqStepResolved
  \/ SeqStepRejected
  \/ SeqReturn
  \/ DagIterate
  \/ \E id \in Ids : ReportStepSkippedDone(id)
  \/ \E id \in Ids : ReportStepStartDone(id)
  \/ \E id \in Ids : ActionDone(id)
  \/ \E id \in Ids : ReportStepEndDone(id)
  \/ \E id \in Ids : ReportStepEndCatchDone(id)
  \/ \E id \in Ids : DagStepResolved(id)
  \/ \E id \in Ids : DagStepRejected(id)

Spec == Init /\ [][Next]_vars

\* The dependency-failure branch of the callback is entered only when a
\* dependency of a ready step has a result with success = false, and
\* canExecuteStep lets a step be ready only when every dependency is
\* FINISHED: no step ever waits in that branch, so its continuation
\* DagDepEndDone is kept out of Next and added here.
NextWithDependencyBranch == Next \/ \E id \in Ids : DagDepEndDone(id)

SpecWithDependencyBranch == Init /\ [][NextWithDependencyBranch]_vars

DependencyBranchNeverEntered == \A id \in Ids : stepPc[id] # "awaitDepEnd"

\* ------------------------------------ the DAG loop without mode selection
\* executeTestCase going into the DAG loop whatever the test case declares,
\* as the engine did before the mode selection was added; the test cases
\* are those in which no step has depends_on.
ExecuteTestCaseStartsDag ==
  /\ runnerPc = "inEngine"
  /\ enginePc = "validate"
  /\ validateDependencies(testCase)
  /\ validateIfConditions(testCase)
  /\ stepStates' = [id \in Ids |-> IF id \in StepIdsOf(testCase)
                                   THEN [status |-> PENDING, result |-> Absent]
                                   ELSE stepStates[id]]
  /\ stepResults' = [id \in Ids |-> Absent]
  /\ enginePc' = "dag"
  /\ UNCHANGED <<resolverVars, written, currentSteps, thrown, runnerPc, testEvents, testCase, testSuccess, overallTestSuccess,
                 executingSteps, cur, raceSet, stepPc, stepRet, stepErr, verdict, obs,
                 invoked, stepEvents>>

InitNoDependencies ==
  /\ Init
  /\ \A i \in 1..Len(testCase) : ~HasDeps(testCase[i])
  /\ testSuccess = TRUEV

NextDagOnly ==
  \/ RunnerReportTestStart
  \/ ReportTestStartDone
  \/ RunnerEngineReturned
  \/ ReportTestEndDone
  \/ ReportTestEndCatchDone
  \/ ExecuteTestCaseStartsDag
  \/ DagIterate
  \/ \E id \in Ids : ReportStepSkippedDone(id)
  \/ \E id \in Ids : ReportStepStartDone(id)
  \/ \E id \in Ids : ActionDone(id)
  \/ \E id \in Ids : ReportStepEndDone(id)
  \/ \E id \in Ids : ReportStepEndCatchDone(id)
  \/ \E id \in Ids : DagStepResolved(id)
  \/ \E id \in Ids : DagStepRejected(id)

SpecDagOnly == InitNoDependencies /\ [][NextDagOnly]_vars

\* ------------------------------------------- termination of the DAG loop
\* runTests has called executeTestCase, with testSuccess true, on a
\* validated test case in which a step declares a dependency.  The guard
\* success() is written as the absent `if`, which stands for it.
InitDagLoop ==
  /\ testCase \in TestCases
  /\ validateDependencies(testCase)
  /\ validateIfConditions(testCase)
  /\ hasStepsWithDependencies
  /\ \A i \in 1..Len(testCase) : testCase[i].if # "success()"
  /\ testSuccess = TRUEV
  /\ stepStates = [id \in Ids |-> [status |-> "none", result |-> Absent]]
  /\ stepResults = [id \in Ids |-> Absent]
  /\ overallTestSuccess = TRUE
  /\ executingSteps = {}
  /\ enginePc = "validate"
  /\ cur = 1
  /\ raceSet = {}
  /\ stepPc = [id \in Ids |-> "idle"]
  /\ stepRet = [id \in Ids |-> Absent]
  /\ stepErr = [id \in Ids |-> "none"]
  /\ verdict = "none"
  /\ obs = [id \in Ids |-> NoObs]
  /\ invoked = [id \in Ids |-> 0]
  /\ stepEvents = [id \in Ids |-> <<>>]
  /\ runnerPc = "inEngine"
  /\ testEvents = <<"testStart">>
  /\ thrown = NoError
  /\ currentSteps = <<>>
  /\ written = <<>>
  /\ NoResolverCall

NextDagLoop ==
  \/ ExecuteTestCaseStarts
  \/ DagIterate
  \/ \E id \in Ids : ReportStepSkippedDone(id)
  \/ \E id \in Ids : ReportStepStartDone(id)
  \/ \E id \in Ids : ActionDone(id)
  \/ \E id \in Ids : ReportStepEndDone(id)
  \/ \E id \in Ids : ReportStepEndCatchDone(id)
  \/ \E id \in Ids : DagStepResolved(id)
  \/ \E id \in Ids : DagStepRejected(id)

\* Every awaited Action and Reporter call settles, and the event loop runs
\* a continuation, or the 10 ms timer of the loop, that is due.
SpecDagLoop == InitDagLoop /\ [][NextDagLoop]_vars /\ WF_vars(NextDagLoop)

\* --------------------------------------------------------- AllureReporter
\* A StepResult of currentSteps.  The record holds no step id (only the
\* name); `id` is kept here to tell whose record it is.
reportStepStart(steps, stepId) ==
  Append(steps, [id |-> stepId, status |-> "passed", stage |-> "running"])

\* The record updated is the last of currentSteps, whatever stepId is.
reportStepEnd(steps, stepId, success) ==
  IF steps = <<>> THEN steps
  ELSE [steps EXCEPT ![Len(steps)] = [@ EXCEPT !.status = IF success THEN "passed" ELSE "failed",
                                                !.stage = "finished"]]

reportStepSkipped(steps, stepId) ==
  Append(steps, [id |-> stepId, status |-> "skipped", stage |-> "finished"])

\* The calls the DAG loop makes on the reporter, in any order it can make
\* them: a step is started or skipped once every dependency is FINISHED
\* (its Action succeeded, or it was skipped), a started step ends once, and
\* the test ends when no started step is without its end.
ReportedFinished(d) ==
  stepEvents[d] \in {<<"stepSkipped">>, <<"stepStart", "stepEnd:true">>}

MayBeCalledFor(id) ==
  /\ testEvents = <<"testStart">>
  /\ id \in StepIdsOf(testCase)
  /\ stepEvents[id] = <<>>
  /\ \A d \in StepById(id).depends_on : ReportedFinished(d)

AllureReporterVarsUnchanged ==
  UNCHANGED <<resolverVars, thrown, runnerPc, testCase, testSuccess, stepStates, stepResults,
              overallTestSuccess, executingSteps, enginePc, cur, raceSet, stepPc,
              stepRet, stepErr, verdict, obs, invoked>>

AllureReportTestStart ==
  /\ testEvents = <<>>
  /\ testEvents' = <<"testStart">>
  /\ currentSteps' = <<>>
  /\ UNCHANGED <<stepEvents, written>>
  /\ AllureReporterVarsUnchanged

AllureReportStepStart(id) ==
  /\ MayBeCalledFor(id)
  /\ currentSteps' = reportStepStart(currentSteps, id)
  /\ stepEvents' = [stepEvents EXCEPT ![id] = Append(@, "stepStart")]
  /\ UNCHANGED <<testEvents, written>>
  /\ AllureReporterVarsUnchanged

AllureReportStepSkipped(id) ==
  /\ MayBeCalledFor(id)
  /\ currentSteps' = reportStepSkipped(currentSteps, id)
  /\ stepEvents' = [stepEvents EXCEPT ![id] = Append(@, "stepSkipped")]
  /\ UNCHANGED <<testEvents, written>>
  /\ AllureReporterVarsUnchanged

AllureReportStepEnd(id, success) ==
  /\ testEvents = <<"testStart">>
  /\ stepEvents[id] = <<"stepStart">>
  /\ currentSteps' = reportStepEnd(currentSteps, id, success)
  /\ stepEvents' = [stepEvents EXCEPT ![id] = Append(@, IF success THEN "stepEnd:true" ELSE "stepEnd:false")]
  /\ UNCHANGED <<testEvents, written>>
  /\ AllureReporterVarsUnchanged

AllureReportTestEnd(success) ==
  /\ testEvents = <<"testStart">>
  /\ \A id \in Ids : stepEvents[id] # <<"stepStart">>
  /\ testEvents' = Append(testEvents, TestEndEvent(IF success THEN "true" ELSE "false"))
  /\ written' = currentSteps
  /\ currentSteps' = <<>>
  /\ UNCHANGED stepEvents
  /\ AllureReporterVarsUnchanged

\* The test cases the DAG loop runs: valid, with a dependency.
InitAllure ==
  /\ Init
  /\ testSuccess = TRUEV
  /\ validateDependencies(testCase)
  /\ hasStepsWithDependencies
  /\ \A i \in 1..Len(testCase) : testCase[i].kind = "Nop" /\ testCase[i].if = "none"

NextAllure ==
  \/ AllureReportTestStart
  \/ \E id \in Ids : AllureReportStepStart(id)
  \/ \E id \in Ids : AllureReportStepSkipped(id)
  \/ \E id \in Ids : \E success \in BOOLEAN : AllureReportStepEnd(id, success)
  \/ \E success \in BOOLEAN : AllureReportTestEnd(success)

SpecAllure == InitAllure /\ [][NextAllure]_vars

\* ------------------------------------------- validation on any test case
\* The test cases a YAML file can hold: ids are what the file gives (two
\* steps may share one, a dependency may name an id no step has), `if` is
\* absent, a valid condition in another spelling, or no condition at all.
ValidatorIds == 1..(MaxValidatorSteps + 1)

ValidatorIfValues == {"none", " Success() ", "sometimes()"}

ValidatorSteps == [id : ValidatorIds, if : ValidatorIfValues, depends_on : SUBSET ValidatorIds, kind : {"Nop"}]

ValidatorTestCases == UNION {[1..n -> ValidatorSteps] : n \in 1..MaxValidatorSteps}

\* runTests has called engine.executeTestCase on such a test case.
InitValidator ==
  /\ testCase \in ValidatorTestCases
  /\ testSuccess = TRUEV
  /\ stepStates = [id \in Ids |-> [status |-> "none", result |-> Absent]]
  /\ stepResults = [id \in Ids |-> Absent]
  /\ overallTestSuccess = TRUE
  /\ executingSteps = {}
  /\ enginePc = "validate"
  /\ cur = 1
  /\ raceSet = {}
  /\ stepPc = [id \in Ids |-> "idle"]
  /\ stepRet = [id \in Ids |-> Absent]
  /\ stepErr = [id \in Ids |-> "none"]
  /\ verdict = "none"
  /\ obs = [id \in Ids |-> NoObs]
  /\ invoked = [id \in Ids |-> 0]
  /\ stepEvents = [id \in Ids |-> <<>>]
  /\ runnerPc = "inEngine"
  /\ testEvents = <<"testStart">>
  /\ thrown = NoError
  /\ currentSteps = <<>>
  /\ written = <<>>
  /\ NoResolverCall

NextValidator == ExecuteTestCaseRejects \/ ExecuteTestCaseStarts

SpecValidator == InitValidator /\ [][NextValidator]_vars

\* ------------------------------------------------------------- claims
Returned == enginePc = "returned"

StepIds == StepIdsOf(testCase)

IsTerminal(id) == stepStates[id].status \in TerminalStatus

HasResult(id) == stepStates[id].result # Absent

\* The guard of the step excluded it / let it through when its turn came.
GuardSkipped(id) == obs[id].evaluated /\ ~obs[id].ran

GuardPassed(id) == obs[id].evaluated /\ obs[id].ran

IfOf(id) == IF StepById(id).if = "none" THEN "none" ELSE LowerTrim(StepById(id).if)

\* C1: when executeTestCase returns its verdict, every step of the test case
\* has a terminal status (FINISHED, FAILED or SKIPPED); none is PENDING or
\* RUNNING.
C1_AllTerminalAtReturn == Returned => \A id \in StepIds : IsTerminal(id)

\* C2: whenever the parameters of a step have been resolved, and whenever its
\* Action has been invoked, stepResults held an entry for each of its
\* dependencies.
C2_DependencyResultsPresent ==
  \A id \in StepIds :
    /\ obs[id].evaluated => obs[id].depsPresent
    /\ stepPc[id] = "awaitAction" => \A d \in StepById(id).depends_on : stepResults[d] # Absent

\* C3: in DAG mode, at the return, a step with a dependency whose result has
\* success = false has never had its Action invoked, is FAILED, has the
\* result "Dependency '<id>' failed" in stepResults, reportStepEnd(id, false)
\* was called for it and testSuccess is false.
C3_DependencyFailurePropagates ==
  (Returned /\ hasStepsWithDependencies) =>
    \A id \in StepIds :
      FailedDependencies(StepById(id), stepStates) # {} =>
        /\ invoked[id] = 0
        /\ stepStates[id].status = FAILED
        /\ \E d \in FailedDependencies(StepById(id), stepStates) : stepResults[id] = DependencyFailed(d)
        /\ \E k \in 1..Len(stepEvents[id]) : stepEvents[id][k] = "stepEnd:false"
        /\ testSuccess = FALSEV

\* C4: in DAG mode the loop does not return while a step is PENDING with
\* all its dependencies terminal: such a step is selected and leaves PENDING.
C4_NoReadyStepLeftPending ==
  (Returned /\ hasStepsWithDependencies) =>
    \A id \in StepIds :
      ~(stepStates[id].status = PENDING /\ \A d \in StepById(id).depends_on : IsTerminal(d))

\* C5: in every state of an execution, stepResults has an entry for a step
\* if and only if the status of the step is terminal.
C5_ResultIffTerminal ==
  enginePc \notin {"validate", "configError"} =>
    \A id \in StepIds : (stepResults[id] # Absent) <=> IsTerminal(id)

\* C6: testSuccess is monotonic: no step of the engine takes it from false
\* to another value.
C6_TestSuccessMonotonic == [][testSuccess = FALSEV => testSuccess' = FALSEV]_vars

\* C6 witness: testSuccess is false and a step that was dispatched after the
\* failure has finished with success.
C6_Witness ==
  \E id \in StepIds :
    /\ testSuccess = FALSEV
    /\ GuardPassed(id) /\ obs[id].ts = FALSEV
    /\ stepStates[id].status = FINISHED

\* C7: a step with if: always() is dispatched whatever testSuccess is; a step
\* with if: success() or no `if` is dispatched iff testSuccess is true when
\* its guard is evaluated.
C7_GuardAlwaysSuccess ==
  \A id \in StepIds :
    obs[id].evaluated =>
      /\ IfOf(id) = "always()" => obs[id].ran
      /\ IfOf(id) \in {"none", "success()"} => (obs[id].ran <=> obs[id].ts = TRUEV)

\* C7 witness: with testSuccess false, an always() step was dispatched and a
\* step with no `if` and a step with success() were not.
C7_Witness ==
  \E a, b, c \in StepIds :
    /\ IfOf(a) = "always()" /\ GuardPassed(a) /\ obs[a].ts = FALSEV
    /\ IfOf(b) = "none" /\ GuardSkipped(b) /\ obs[b].ts = FALSEV
    /\ IfOf(c) = "success()" /\ GuardPassed(c) /\ obs[c].ts = TRUEV

\* C8: a step with if: failure() is dispatched iff, when its guard is
\* evaluated, some step has already reached a terminal state with
\* success = false.
C8_FailureGuard ==
  \A id \in StepIds :
    (obs[id].evaluated /\ IfOf(id) = "failure()") => (obs[id].ran <=> obs[id].failedThen)

\* C9: the verdict returned is the conjunction, over all steps, of (the
\* step's result has success = true, or the step is SKIPPED).
C9_VerdictIsConjunction ==
  Returned =>
    ((verdict = "true") <=>
       \A id \in StepIds : (HasResult(id) /\ stepStates[id].result.success) \/ stepStates[id].status = SKIPPED)

\* C9 witness: the engine returned true for a test case of which one step
\* was executed and another was excluded by its guard.
C9_Witness ==
  /\ Returned
  /\ verdict = "true"
  /\ \E id \in StepIds : GuardSkipped(id)
  /\ \E id \in StepIds : GuardPassed(id)

\* C10: once validation has passed, context.testSuccess is a boolean (true
\* when the caller did not set it), and the first step, when it has no `if`,
\* is executed, not skipped.
C10_TestSuccessInitialised ==
  /\ enginePc \notin {"validate", "configError"} => testSuccess # UNDEFINED
  /\ (obs[testCase[1].id].evaluated /\ IfOf(testCase[1].id) = "none") => obs[testCase[1].id].ran

\* No reporter call has been made for any step.
NoStepEvents == \A id \in Ids : stepEvents[id] = <<>>

\* C11: when validation fails, the caller observes a configuration error, no
\* Action has been invoked, no step has left PENDING and no reporter event
\* (testStart, stepStart, stepEnd, stepSkipped, testEnd) has been emitted for
\* the test case, then or later.
C11_NoEventsOnConfigError ==
  enginePc = "configError" =>
    /\ \A id \in Ids : invoked[id] = 0
    /\ \A id \in Ids : stepStates[id].status \in {"none", PENDING}
    /\ NoStepEvents
    /\ testEvents = <<>>

\* ---------------------------------------------------- claims on validation
Accepted == enginePc \notin {"validate", "configError"}

Rejected == enginePc = "configError"

IndexesOf(d) == {j \in 1..NSteps : testCase[j].id = d}

\* A set of steps each of which depends on a step of the set: a cycle, or a
\* path into one.
ClosedUnderDependency(S) == \A i \in S : \E d \in testCase[i].depends_on : IndexesOf(d) \cap S # {}

\* C12: a test case in which the step at index i names in depends_on an id
\* that a step at an index j >= i has is rejected; in an accepted test case
\* every dependency is the id of a step at a smaller index, and the
\* dependency graph has no cycle.
C12_LaterDependencyRejected ==
  Accepted =>
    /\ \A i \in 1..NSteps : \A d \in testCase[i].depends_on :
         /\ \A j \in i..NSteps : testCase[j].id # d
         /\ \E j \in 1..(i-1) : testCase[j].id = d
    /\ \A S \in SUBSET (1..NSteps) : S # {} => ~ClosedUnderDependency(S)

\* C12 witness: a test case of two steps that depend on each other has been
\* rejected with the ordering error of the first step.
C12_Witness ==
  /\ Rejected
  /\ NSteps = 2
  /\ testCase[1].id # testCase[2].id
  /\ testCase[1].depends_on = {testCase[2].id}
  /\ testCase[2].depends_on = {testCase[1].id}
  /\ thrown = OrderError(1, testCase[2].id)

\* The violations of each of the four checks, stated on the test case.
RepeatedIds == {d \in ValidatorIds : Cardinality(IndexesOf(d)) > 1}

MissingAt(i, d) == IndexesOf(d) = {}

OutOfOrderAt(i, d) == \E j \in IndexesOf(d) : j >= i

InvalidIfAt(i) == testCase[i].if \notin {"none", " Success() "}

SomeMissing == \E i \in 1..NSteps : \E d \in testCase[i].depends_on : MissingAt(i, d)

SomeOutOfOrder == \E i \in 1..NSteps : \E d \in testCase[i].depends_on : ~MissingAt(i, d) /\ OutOfOrderAt(i, d)

SomeInvalidIf == \E i \in 1..NSteps : InvalidIfAt(i)

FirstViolatedCheck ==
  IF RepeatedIds # {} THEN "duplicate"
  ELSE IF SomeMissing THEN "missing"
  ELSE IF SomeOutOfOrder THEN "order"
  ELSE IF SomeInvalidIf THEN "if"
  ELSE "none"

\* C13 as stated: the error raised is that of the first violated check in
\* the order unique ids, targets exist, dependency ordering, conditional
\* syntax, and a unique-id error names all duplicated ids.
C13_FirstViolatedCheckRaised ==
  Rejected =>
    /\ thrown.check = FirstViolatedCheck
    /\ thrown.check = "duplicate" => thrown.ids = RepeatedIds

\* The dependency (i, d) comes before (k, e) in the walk over the steps in
\* declared order and over each step's dependencies in listed order.
WalkedBefore(i, d, k, e) == i < k \/ (i = k /\ d < e)

\* C13 amended: unique ids are checked first; then the steps are walked in
\* declared order and each step's dependencies in listed order, checking
\* for each dependency that its target exists and then that it is declared
\* earlier; conditional syntax is checked last.  The error raised is that of
\* the first violation met in this walk, a unique-id error names all
\* duplicated ids, and a test case with no violation is accepted.
C13_FirstViolationInWalkRaised ==
  /\ Accepted => FirstViolatedCheck = "none"
  /\ Rejected =>
       /\ thrown.check \in {"duplicate", "missing", "order", "if"}
       /\ thrown.check = "duplicate" <=> RepeatedIds # {}
       /\ thrown.check = "duplicate" => thrown.ids = RepeatedIds
       /\ thrown.check \in {"missing", "order"} =>
            /\ thrown.step \in 1..NSteps
            /\ thrown.dep \in testCase[thrown.step].depends_on
            /\ thrown.check = "missing" <=> MissingAt(thrown.step, thrown.dep)
            /\ thrown.check = "order" => OutOfOrderAt(thrown.step, thrown.dep)
            /\ \A i \in 1..NSteps : \A d \in testCase[i].depends_on :
                 WalkedBefore(i, d, thrown.step, thrown.dep) =>
                   ~MissingAt(i, d) /\ ~OutOfOrderAt(i, d)
       /\ thrown.check = "if" =>
            /\ ~SomeMissing /\ ~SomeOutOfOrder
            /\ thrown.step \in 1..NSteps
            /\ InvalidIfAt(thrown.step)
            /\ \A i \in 1..(thrown.step - 1) : ~InvalidIfAt(i)

\* C13 witness: a test case that violates three checks at once (the first
\* step depends on the second, the second on an id no step has, and an
\* `if` is no condition) has been rejected with the ordering error of the
\* first step.
C13_Witness ==
  /\ Rejected
  /\ RepeatedIds = {}
  /\ SomeMissing /\ SomeOutOfOrder /\ SomeInvalidIf
  /\ thrown.check = "order"
  /\ thrown.step = 1

\* ------------------------------------------------- claims on reporter events
TestStartEmitted == \E k \in 1..Len(testEvents) : testEvents[k] = "testStart"

TestEndEmitted == \E k \in 1..Len(testEvents) : testEvents[k] \in {"testEnd:true", "testEnd:false"}

\* C14: no step event (stepStart, stepSkipped, stepEnd) is emitted before
\* the testStart call has completed, and none is emitted once testEnd has
\* been emitted, whatever DAG branches were running side by side.
C14_TestEventsBracketStepEvents ==
  /\ [](~NoStepEvents => (TestStartEmitted /\ testEvents[1] = "testStart" /\ runnerPc # "awaitTestStart"))
  /\ [][TestEndEmitted => stepEvents' = stepEvents]_vars

\* C14 witness: in DAG mode one branch has completed its step while another
\* branch, started in the same iteration, still waits for its Action;
\* testStart was emitted and testEnd was not.
C14_Witness ==
  /\ InDag
  /\ testEvents = <<"testStart">>
  /\ \E a, b \in StepIds :
       /\ a # b
       /\ stepPc[a] = "done" /\ stepStates[a].status = FINISHED
       /\ stepPc[b] = "awaitAction" /\ b \in executingSteps
       /\ a \notin StepById(b).depends_on

TestEndCount == Cardinality({k \in 1..Len(testEvents) : testEvents[k] \in {"testEnd:true", "testEnd:false"}})

\* C15: for a test case that passed validation testEnd is emitted at most
\* once, and when the runner is through with the test case it has been
\* emitted exactly once, as the last event, whatever the steps did.
C15_TestEndOnceAndLast ==
  Accepted =>
    /\ TestEndCount <= 1
    /\ runnerPc = "done" =>
         /\ TestEndCount = 1
         /\ testEvents[Len(testEvents)] \in {"testEnd:true", "testEnd:false"}

\* ------------------------------------------------ claims on failing steps
\* The step was dispatched and its kind was not found in the registry.
UnknownKind(id) == stepErr[id] = "unknown_kind"

\* C16: at the return, a step whose kind is not registered is FAILED with
\* a diagnostic output, testSuccess is false, the verdict is false, and
\* every step of the test case has been processed: none is left PENDING or
\* RUNNING.
C16_UnknownKindFailsStepOnly ==
  Returned =>
    \A id \in StepIds :
      UnknownKind(id) =>
        /\ stepStates[id].status = FAILED
        /\ stepStates[id].result = ErrorResult("unknown_kind")
        /\ stepResults[id] = ErrorResult("unknown_kind")
        /\ testSuccess = FALSEV
        /\ verdict = "false"
        /\ \A t \in StepIds : IsTerminal(t)

\* The Action of the step raised an exception.
ActionRaised(id) == stepRet[id] = ErrorResult("action")

\* C17: when the Action of a step raises, the wrapped error is stored in
\* stepResults and reportStepEnd(id, false, output) is called; at the
\* return the step is FAILED with a failure result, testSuccess is false and
\* the other steps have been processed as after a returned failure: none is
\* left PENDING or RUNNING.
C17_ActionExceptionIsFailure ==
  \A id \in StepIds :
    ActionRaised(id) =>
      /\ stepPc[id] = "awaitEndCatch" =>
           /\ stepResults[id] = ErrorResult("action")
           /\ stepEvents[id] = <<"stepStart", "stepEnd:false">>
      /\ Returned =>
           /\ stepStates[id].status = FAILED
           /\ ~stepResults[id].success
           /\ testSuccess = FALSEV
           /\ \A t \in StepIds : IsTerminal(t)

\* An awaited reporter call of the step raised.
ReporterRaised(id) == stepErr[id] = "reporter" \/ stepRet[id] = ErrorResult("reporter")

\* C18: a failure raised by an awaited reporter call of a step leaves
\* executeTestCase as an exception: the engine does not go on to return a
\* verdict, and the failure is not turned into the result of the step.
C18_ReporterFailurePropagates ==
  \A id \in StepIds :
    ReporterRaised(id) =>
      /\ ~Returned
      /\ stepResults[id] # ErrorResult("reporter")
      /\ stepStates[id].result # ErrorResult("reporter")

\* C19: a step that its guard excluded ends in status SKIPPED, in both
\* modes.
C19_GuardSkippedEndsSkipped ==
  \A id \in StepIds :
    (GuardSkipped(id) /\ stepPc[id] = "done") => stepStates[id].status = SKIPPED

HasEvent(id, e) == \E k \in 1..Len(stepEvents[id]) : stepEvents[id][k] = e

\* C20: for a step that its guard excluded exactly one stepSkipped event is
\* emitted, no stepStart and no stepEnd, and its Action is never invoked; for
\* every other step no stepSkipped event is emitted.
C20_SkippedEventExactlyForSkipped ==
  \A id \in Ids :
    /\ (id \in StepIds /\ GuardSkipped(id)) => (stepEvents[id] = <<"stepSkipped">> /\ invoked[id] = 0)
    /\ ~(id \in StepIds /\ GuardSkipped(id)) => ~HasEvent(id, "stepSkipped")

\* C20 witness: the engine has returned; one step was excluded by its guard
\* and has its stepSkipped, another went through stepStart and stepEnd.
C20_Witness ==
  /\ Returned
  /\ \E a, b \in StepIds :
       /\ GuardSkipped(a) /\ stepEvents[a] = <<"stepSkipped">> /\ stepPc[a] = "done"
       /\ GuardPassed(b) /\ stepEvents[b] = <<"stepStart", "stepEnd:false">> /\ invoked[b] = 1

\* --------------------------------------------------- claims on step status
\* The place of a status in PENDING -> RUNNING -> terminal; "none" is a step
\* whose state has not been created.
StatusRank(status) ==
  CASE status = "none" -> 0
    [] status = PENDING -> 1
    [] status = RUNNING -> 2
    [] status \in TerminalStatus -> 3

\* C21: in both modes no step of the engine moves the status of a step
\* backwards in PENDING -> RUNNING -> {FINISHED, FAILED, SKIPPED}, and a
\* terminal status is never replaced by another status.
C21_StatusNeverRegresses ==
  [][\A id \in Ids :
       /\ StatusRank(stepStates'[id].status) >= StatusRank(stepStates[id].status)
       /\ stepStates[id].status \in TerminalStatus => stepStates'[id].status = stepStates[id].status]_vars

\* C21 witness: in DAG mode one step has gone from RUNNING to FINISHED and
\* one from RUNNING to FAILED, and a third is RUNNING.
C21_Witness ==
  /\ InDag
  /\ \E a, b, c \in StepIds :
       /\ stepStates[a].status = FINISHED /\ a \notin executingSteps
       /\ stepStates[b].status = FAILED /\ b \notin executingSteps
       /\ stepStates[c].status = RUNNING

\* --------------------------------------------------- claims on DAG mode
DagMode == enginePc \notin {"validate", "configError"} /\ hasStepsWithDependencies

\* The step has left PENDING: it was started, its guard was evaluated or its
\* Action was invoked.
LeftPending(id) ==
  \/ stepStates[id].status \in {RUNNING} \cup TerminalStatus
  \/ obs[id].evaluated
  \/ invoked[id] > 0

\* C22: in DAG mode, in every state of every interleaving, a step that has
\* left PENDING has no dependency that is still PENDING or RUNNING.
C22_NoStartBeforeDependencies ==
  DagMode =>
    \A id \in StepIds :
      LeftPending(id) => \A d \in StepById(id).depends_on : stepStates[d].status \notin {PENDING, RUNNING}

\* C22 witness: a step with two dependencies is running after both have
\* finished, while a step that depends on neither is still running.
C22_Witness ==
  /\ DagMode
  /\ \E id, other \in StepIds :
       /\ stepStates[id].status = RUNNING
       /\ StepById(id).depends_on # {}
       /\ \A d \in StepById(id).depends_on : stepStates[d].status = FINISHED
       /\ other # id
       /\ other \notin StepById(id).depends_on
       /\ stepStates[other].status = RUNNING

\* The steps the readySteps filter selects in the current state.
SelectedNow ==
  {id \in StepIds :
     /\ stepStates[id].status = PENDING
     /\ \A d \in StepById(id).depends_on : stepStates[d].status = FINISHED
     /\ id \notin executingSteps}

\* C23: an iteration of the DAG loop starts every step of the ready set it
\* computed: after it none of them is PENDING and all are among the
\* executing steps.
C23_AllReadyStepsStarted ==
  [][DagIterate => \A id \in SelectedNow : stepStates'[id].status # PENDING /\ id \in executingSteps']_vars

\* C23 witness: two steps that do not depend on each other, one of them
\* with a finished dependency, are RUNNING at the same time and both wait
\* for their Action.
C23_Witness ==
  /\ DagMode
  /\ \E a, b \in StepIds :
       /\ a # b
       /\ a \notin StepById(b).depends_on /\ b \notin StepById(a).depends_on
       /\ StepById(b).depends_on # {}
       /\ stepStates[a].status = RUNNING /\ stepPc[a] = "awaitAction"
       /\ stepStates[b].status = RUNNING /\ stepPc[b] = "awaitAction"

\* ----------------------------------------------- claims on Sequential mode
SequentialMode == enginePc \notin {"validate", "configError"} /\ ~hasStepsWithDependencies

\* A step declared before index j has ended FAILED.
FailedBefore(j) == \E i \in 1..(j-1) : stepStates[testCase[i].id].status = FAILED

RECURSIVE SequentialReplayAgrees(_, _)
SequentialReplayAgrees(j, ts) ==
  IF j > NSteps THEN testSuccess = ts
  ELSE LET id == testCase[j].id
           run == Truthy(shouldExecuteStep(testCase[j], ts))
       IN /\ obs[id].evaluated
          /\ obs[id].ran = run
          /\ SequentialReplayAgrees(j + 1, IF stepStates[id].status = FAILED THEN FALSEV ELSE ts)

\* C25: for a test case in which no step has depends_on, what the DAG
\* procedure has done when it returns is what the Sequential procedure does
\* on the same test case with the same step outcomes: the same steps
\* executed and skipped, the same final testSuccess, the same verdict.
C25_DagEqualsSequential ==
  (Returned /\ ~hasStepsWithDependencies) =>
    /\ SequentialReplayAgrees(1, TRUEV)
    /\ verdict = VerdictOf(\A id \in StepIds : stepStates[id].status # FAILED)

\* A continuation of the execution of step s in DAG mode: of executeTestStep
\* or of the callback that awaits it.
StepExecution(s) ==
  \/ ReportStepSkippedDone(s)
  \/ ReportStepStartDone(s)
  \/ ActionDone(s)
  \/ ReportStepEndDone(s)
  \/ ReportStepEndCatchDone(s)
  \/ DagStepResolved(s)
  \/ DagStepRejected(s)

Reported == IF TestEndEmitted THEN written ELSE currentSteps

RecordsOf(id) == {k \in 1..Len(Reported) : Reported[k].id = id}

\* C27: whatever the order of the calls for concurrent steps, the record
\* created for a step by reportStepStart has the status of the reportStepEnd
\* of that step (and is still running before it), and the record of a
\* skipped step stays skipped: the test result reports each step with its
\* own outcome.
C27_EachStepReportedWithOwnOutcome ==
  \A id \in StepIds :
    \A k \in RecordsOf(id) :
      /\ stepEvents[id] = <<"stepStart">> => Reported[k] = [id |-> id, status |-> "passed", stage |-> "running"]
      /\ stepEvents[id] = <<"stepStart", "stepEnd:true">> => Reported[k] = [id |-> id, status |-> "passed", stage |-> "finished"]
      /\ stepEvents[id] = <<"stepStart", "stepEnd:false">> => Reported[k] = [id |-> id, status |-> "failed", stage |-> "finished"]
      /\ stepEvents[id] = <<"stepSkipped">> => Reported[k] = [id |-> id, status |-> "skipped", stage |-> "finished"]

\* --------------------------------------------- strings and values of the code
\* A string is a sequence of symbols: the characters the code looks for, and
\* atoms that stand for a run of other characters.  In every string a
\* recorded result holds, each atom is one character.
LBRACE == "{"

RBRACE == "}"

DOT == "."

LBRACKET == "["

RBRACKET == "]"

QUOTE == "\""

COLON == ":"

COMMA == ","

Digits == <<"0", "1", "2", "3", "4", "5", "6", "7", "8", "9">>

IsDigit(c) == \E d \in 1..10 : Digits[d] = c

DigitOf(c) == (CHOOSE d \in 1..10 : Digits[d] = c) - 1

Chars(s) == {s[i] : i \in 1..Len(s)}

\* A JavaScript value: its typeof-like tag and its content.  The content of
\* a number or a boolean is its text, of a string its symbols, of an array
\* its elements, of an object its entries [key, value] in insertion order.
Undefined == [t |-> "undefined"]

Null == [t |-> "null"]

NumberValue(text) == [t |-> "number", text |-> text]

BooleanValue(b) == [t |-> "boolean", text |-> IF b THEN <<"true">> ELSE <<"false">>]

StringValue(s) == [t |-> "string", chars |-> s]

ArrayValue(elements) == [t |-> "array", elements |-> elements]

ObjectValue(entries) == [t |-> "object", entries |-> entries]

\* The TypeError a property read of null or undefined throws.
TypeError == [t |-> "TypeError"]

\* NaN, as parseInt returns it.
NaN == -1

\* s.indexOf(c) + 1.
IndexOf(s, c) ==
  IF c \in Chars(s)
  THEN CHOOSE i \in 1..Len(s) : s[i] = c /\ \A j \in 1..(i - 1) : s[j] # c
  ELSE 0

\* s.split(sep) for a one-character separator.
RECURSIVE split(_, _)
split(s, sep) ==
  LET i == IndexOf(s, sep)
  IN IF i = 0 THEN <<s>>
     ELSE <<SubSeq(s, 1, i - 1)>> \o split(SubSeq(s, i + 1, Len(s)), sep)

\* s.replace(c, ''): the first occurrence only.
RemoveFirst(s, c) ==
  LET i == IndexOf(s, c)
  IN IF i = 0 THEN s ELSE SubSeq(s, 1, i - 1) \o SubSeq(s, i + 1, Len(s))

\* parseInt(s): the number its leading digits write, NaN without one.
RECURSIVE LeadingNumber(_, _)
LeadingNumber(s, acc) ==
  IF s = <<>> \/ ~IsDigit(Head(s)) THEN acc
  ELSE LeadingNumber(Tail(s), 10 * acc + DigitOf(Head(s)))

parseInt(s) == IF s = <<>> \/ ~IsDigit(Head(s)) THEN NaN ELSE LeadingNumber(s, 0)

\* The key a number is as a property name.
IsIndexKey(key) == key # <<>> /\ \A i \in 1..Len(key) : IsDigit(key[i])

HasEntry(entries, key) == \E i \in 1..Len(entries) : entries[i].key = key

EntryOf(entries, key) == entries[CHOOSE i \in 1..Len(entries) : entries[i].key = key].value

\* value[index] for a number; keys are never names of built-in properties.
GetIndex(value, index) ==
  CASE value.t \in {"undefined", "null"} -> TypeError
    [] value.t = "array" ->
         IF index # NaN /\ index < Len(value.elements) THEN value.elements[index + 1] ELSE Undefined
    [] value.t = "string" ->
         IF index # NaN /\ index < Len(value.chars) THEN StringValue(<<value.chars[index + 1]>>) ELSE Undefined
    [] OTHER -> Undefined

\* value[key] for a string key.
Get(value, key) ==
  CASE value.t \in {"undefined", "null"} -> TypeError
    [] value.t = "object" ->
         IF HasEntry(value.entries, key) THEN EntryOf(value.entries, key) ELSE Undefined
    [] value.t \in {"array", "string"} ->
         IF IsIndexKey(key) THEN GetIndex(value, parseInt(key)) ELSE Undefined
    [] OTHER -> Undefined

\* value?.[index].
OptionalGetIndex(value, index) ==
  IF value.t \in {"undefined", "null"} THEN Undefined ELSE GetIndex(value, index)

\* JSON.stringify(value); no string here holds a quote or a backslash.
RECURSIVE stringify(_)
RECURSIVE stringifyElements(_, _)
RECURSIVE stringifyEntries(_, _)
stringifyElements(elements, i) ==
  IF i > Len(elements) THEN <<>>
  ELSE (IF i > 1 THEN <<COMMA>> ELSE <<>>) \o stringify(elements[i])
       \o stringifyElements(elements, i + 1)

stringifyEntries(entries, i) ==
  IF i > Len(entries) THEN <<>>
  ELSE (IF i > 1 THEN <<COMMA>> ELSE <<>>)
       \o <<QUOTE>> \o entries[i].key \o <<QUOTE, COLON>> \o stringify(entries[i].value)
       \o stringifyEntries(entries, i + 1)

stringify(value) ==
  CASE value.t = "null" -> <<"null">>
    [] value.t \in {"number", "boolean"} -> value.text
    [] value.t = "string" -> <<QUOTE>> \o value.chars \o <<QUOTE>>
    [] value.t = "array" -> <<LBRACKET>> \o stringifyElements(value.elements, 1) \o <<RBRACKET>>
    [] value.t = "object" -> <<LBRACE>> \o stringifyEntries(value.entries, 1) \o <<RBRACE>>

\* typeof value === 'object'.
IsObjectType(value) == value.t \in {"null", "array", "object"}

\* String(value) of a value that is no object.
String(value) == IF value.t = "string" THEN value.chars ELSE value.text

\* ---------------------------------------------------- processStepVariables
\* stepResults as the resolver reads it: entries [key, value], the key a
\* step id and the value its ActionResult {success, output}.
ActionResultValue(success, output) ==
  ObjectValue(<<[key |-> <<"success">>, value |-> BooleanValue(success)],
                [key |-> <<"output">>, value |-> output]>>)

\* The for-loop over the path: the value reached, Undefined once the loop
\* breaks, TypeError when a read throws.
RECURSIVE walk(_, _)
walk(value, path) ==
  IF path = <<>> THEN value
  ELSE LET key == Head(path)
           next == IF LBRACKET \in Chars(key) /\ RBRACKET \in Chars(key)
                   THEN LET parts == split(key, LBRACKET)
                            index == parseInt(RemoveFirst(parts[2], RBRACKET))
                            array == Get(value, parts[1])
                        IN IF array = TypeError THEN TypeError
                           ELSE OptionalGetIndex(array, index)
                   ELSE Get(value, key)
       IN IF next = TypeError \/ next = Undefined THEN next
          ELSE walk(next, Tail(path))

\* The callback of obj.replace: the text that takes the place of `match`.
replacement(match, variable, context) ==
  IF variable = <<"testCaseId">> THEN StringValue(context.testCaseId)
  ELSE IF variable = <<"testCaseName">> THEN StringValue(context.testCaseName)
  ELSE LET parts == split(variable, DOT)
           stepId == Head(parts)
           path == Tail(parts)
       IN IF HasEntry(context.stepResults, stepId)
          THEN LET result == EntryOf(context.stepResults, stepId)
                   value == walk(result, path)
               IN IF path = <<>> THEN StringValue(stringify(result))
                  ELSE IF value = TypeError THEN TypeError
                  ELSE IF value # Undefined
                       THEN (IF IsObjectType(value) THEN StringValue(stringify(value))
                             ELSE StringValue(String(value)))
                       ELSE StringValue(match)
          ELSE StringValue(match)

\* The replace of a pattern that admits no `{` inside the braces: the
\* innermost pair of braces is the match.
LastIndexOf(s, c) ==
  IF c \in Chars(s)
  THEN CHOOSE i \in 1..Len(s) : s[i] = c /\ \A j \in (i + 1)..Len(s) : s[j] # c
  ELSE 0

RECURSIVE replace_Innermost(_, _)
replace_Innermost(s, context) ==
  LET j == IndexOf(s, RBRACE)
      i == LastIndexOf(SubSeq(s, 1, j - 1), LBRACE)
      tail == replace_Innermost(SubSeq(s, j + 1, Len(s)), context)
  IN IF j = 0 THEN StringValue(s)
     ELSE IF i = 0 \/ i = j - 1
          THEN (IF tail = TypeError THEN TypeError
                ELSE StringValue(SubSeq(s, 1, j) \o tail.chars))
          ELSE LET variable == SubSeq(s, i + 1, j - 1)
                   match == <<LBRACE>> \o variable \o <<RBRACE>>
                   text == replacement(match, variable, context)
               IN IF text = TypeError \/ tail = TypeError THEN TypeError
                  ELSE StringValue(SubSeq(s, 1, i - 1) \o text.chars \o tail.chars)

\* obj.replace(/\{([^}]+)\}/g, callback): the leftmost `{`, one or more
\* symbols other than `}`, and the next `}` make a match.
RECURSIVE replace(_, _)
replace(s, context) ==
  LET i == IndexOf(s, LBRACE)
      rest == SubSeq(s, i + 1, Len(s))
      j == IndexOf(rest, RBRACE)
  IN IF i = 0 \/ j = 0 THEN StringValue(s)
     ELSE IF j = 1
          THEN LET tail == replace(rest, context)
               IN IF tail = TypeError THEN TypeError
                  ELSE StringValue(SubSeq(s, 1, i) \o tail.chars)
          ELSE LET variable == SubSeq(rest, 1, j - 1)
                   match == <<LBRACE>> \o variable \o <<RBRACE>>
                   text == replacement(match, variable, context)
                   tail == replace(SubSeq(rest, j + 1, Len(rest)), context)
               IN IF text = TypeError \/ tail = TypeError THEN TypeError
                  ELSE StringValue(SubSeq(s, 1, i - 1) \o text.chars \o tail.chars)

RECURSIVE replaceVariables(_, _)
replaceVariables(obj, context) ==
  CASE obj.t = "string" -> replace(obj.chars, context)
    [] obj.t = "array" ->
         LET r == [i \in 1..Len(obj.elements) |-> replaceVariables(obj.elements[i], context)]
         IN IF \E i \in 1..Len(obj.elements) : r[i] = TypeError THEN TypeError
            ELSE ArrayValue(r)
    [] obj.t = "object" ->
         LET r == [i \in 1..Len(obj.entries) |->
                     [key |-> obj.entries[i].key,
                      value |-> replaceVariables(obj.entries[i].value, context)]]
         IN IF \E i \in 1..Len(obj.entries) : r[i].value = TypeError THEN TypeError
            ELSE ObjectValue(r)
    [] OTHER -> obj

\* The step is deep-copied first (JSON.parse(JSON.stringify(step))), which
\* gives an equal value.
processStepVariables(step, context) == replaceVariables(step, context)

\* ------------------------------------------------------- AssertionEngine
\* The TestContext of the assertion engine over the same step results:
\* no variable is set, baseUrl is a plain text.
TestContextOf(context) ==
  [variables |-> <<>>, stepResults |-> context.stepResults,
   baseUrl |-> StringValue(<<"b">>), testCaseId |-> StringValue(context.testCaseId)]

\* The for-loop of getVariableValue over parts[1..]: a value that is falsy
\* or no object ends it with undefined.
RECURSIVE getVariableValueWalk(_, _)
getVariableValueWalk(value, parts) ==
  IF parts = <<>> THEN value
  ELSE IF value.t \in {"array", "object"}
       THEN getVariableValueWalk(Get(value, Head(parts)), Tail(parts))
       ELSE Undefined

getVariableValue(path, context) ==
  LET parts == split(path, DOT)
  IN IF HasEntry(context.variables, path) THEN EntryOf(context.variables, path)
     ELSE IF Len(parts) > 1 /\ HasEntry(context.stepResults, Head(parts))
          THEN getVariableValueWalk(EntryOf(context.stepResults, Head(parts)), Tail(parts))
     ELSE IF path = <<"baseUrl">> THEN context.baseUrl
     ELSE IF path = <<"testCaseId">> THEN context.testCaseId
     ELSE Undefined

\* JavaScript truthiness of a value.
IsTruthy(value) ==
  /\ value.t \notin {"undefined", "null"}
  /\ value # StringValue(<<>>)
  /\ value # NumberValue(<<"0">>)
  /\ value # BooleanValue(FALSE)

\* The string a value becomes as the return value of a replace callback.
RECURSIVE StringOf(_)
RECURSIVE JoinElements(_, _)
JoinElements(elements, i) ==
  IF i > Len(elements) THEN <<>>
  ELSE (IF i > 1 THEN <<COMMA>> ELSE <<>>)
       \o (IF elements[i].t \in {"undefined", "null"} THEN <<>> ELSE StringOf(elements[i]))
       \o JoinElements(elements, i + 1)

StringOf(value) ==
  CASE value.t = "array" -> JoinElements(value.elements, 1)
    [] value.t = "object" -> <<"[object Object]">>
    [] value.t = "null" -> <<"null">>
    [] value.t = "undefined" -> <<"undefined">>
    [] OTHER -> String(value)

\* value.replace(/\{([^}]+)\}/g, ...) of resolveVariables.
RECURSIVE replaceTemplate(_, _)
replaceTemplate(s, context) ==
  LET i == IndexOf(s, LBRACE)
      rest == SubSeq(s, i + 1, Len(s))
      j == IndexOf(rest, RBRACE)
  IN IF i = 0 \/ j = 0 THEN s
     ELSE IF j = 1 THEN SubSeq(s, 1, i) \o replaceTemplate(rest, context)
     ELSE LET varName == SubSeq(rest, 1, j - 1)
              found == getVariableValue(varName, context)
              text == IF IsTruthy(found) THEN StringOf(found)
                      ELSE <<LBRACE>> \o varName \o <<RBRACE>>
          IN SubSeq(s, 1, i - 1) \o text
             \o replaceTemplate(SubSeq(rest, j + 1, Len(rest)), context)

\* /^\[(.+)\]$/ matches: `[`, one symbol or more, `]`.
IsVariableReference(s) == Len(s) >= 3 /\ s[1] = LBRACKET /\ s[Len(s)] = RBRACKET

resolveVariables(value, context) ==
  IF value.t # "string" THEN value
  ELSE IF IsVariableReference(value.chars)
       THEN getVariableValue(SubSeq(value.chars, 2, Len(value.chars) - 1), context)
       ELSE StringValue(replaceTemplate(value.chars, context))

\* ------------------------------------- the resolver and its inputs, bounded
\* Paths of the forms name, name.child, name.child[idx] and one level more;
\* the names are the two context keys, a recorded step and an unknown one.
PathNames == {"testCaseId", "testCaseName", "s", "u"}

PathKeys == {"output", "x"}

PathIndexes == {"0", "7"}

PathSegments ==
  {<<k>> : k \in PathKeys} \cup {<<k, LBRACKET, i, RBRACKET>> : k \in PathKeys, i \in PathIndexes}

Paths ==
  {<<n>> : n \in PathNames}
    \cup {<<n, DOT>> \o seg : n \in PathNames, seg \in PathSegments}
    \cup {<<n, DOT, "output", DOT>> \o seg : n \in PathNames, seg \in PathSegments}

Placeholder(p) == <<LBRACE>> \o p \o <<RBRACE>>

Reference(p) == <<LBRACKET>> \o p \o <<RBRACKET>>

\* A template: one placeholder, alone or between literal text that may hold
\* braces of its own.
TemplatePrefixes == {<<>>, <<"a">>, <<LBRACE>>, <<LBRACE, RBRACE>>}

TemplateSuffixes == {<<>>, <<RBRACE>>}

Templates ==
  {pre \o Placeholder(p) \o post : pre \in TemplatePrefixes, p \in Paths, post \in TemplateSuffixes}

\* The params of a step: a string, a sequence or a mapping that holds one.
ParamsOf(template) ==
  {StringValue(template),
   ArrayValue(<<StringValue(template), NumberValue(<<"5">>)>>),
   ObjectValue(<<[key |-> <<"url">>, value |-> StringValue(template)]>>)}

ParamStructures == UNION {ParamsOf(t) : t \in Templates}

\* What an Action may return as output: any JSON value.
LeafOutputs ==
  {Null, NumberValue(<<"5">>), StringValue(<<"a", "b">>),
   StringValue(<<LBRACE, "s", RBRACE>>), ArrayValue(<<StringValue(<<"a">>)>>)}

Outputs == LeafOutputs \cup {ObjectValue(<<[key |-> <<"x">>, value |-> o]>>) : o \in LeafOutputs}

\* A step id is any string of the YAML file: here one that reads as the
\* inside of the JSON text of another step's result.
QuotedStepId ==
  <<QUOTE, "success", QUOTE, COLON, "true", COMMA, QUOTE, "output", QUOTE, COLON, "5">>

StepResultMaps ==
  {<<>>} \cup {<<[key |-> <<"s">>, value |-> ActionResultValue(TRUE, o)]>> : o \in Outputs}
    \cup {<<[key |-> <<"s">>, value |-> ActionResultValue(TRUE, NumberValue(<<"5">>))],
             [key |-> QuotedStepId, value |-> ActionResultValue(FALSE, NumberValue(<<"0">>))]>>}

Contexts ==
  [testCaseId : {<<"t">>, <<"s">>, <<LBRACE, "s", RBRACE>>}, testCaseName : {<<"n">>},
   stepResults : StepResultMaps]

\* No call of AssertionEngine.resolveVariables yet.
NotCalled == [t |-> "not called"]

ResolverEngineUnchanged ==
  UNCHANGED <<assertionVars, configVars, registryVars, written, currentSteps, thrown, runnerPc, testEvents, testCase, testSuccess,
              stepStates, stepResults, overallTestSuccess, executingSteps, enginePc, cur,
              raceSet, stepPc, stepRet, stepErr, verdict, obs, invoked, stepEvents>>

\* executeTestStep calls processStepVariables on the step.
ProcessStepVariables ==
  /\ processed = <<>>
  /\ processed' = <<processStepVariables(params, execContext)>>
  /\ UNCHANGED <<params, execContext, expected, resolvedExpected>>
  /\ ResolverEngineUnchanged

\* The resolver applied to what it returned, in the same context.
ProcessStepVariablesAgain ==
  /\ Len(processed) = 1
  /\ processed[1] # TypeError
  /\ processed' = Append(processed, processStepVariables(processed[1], execContext))
  /\ UNCHANGED <<params, execContext, expected, resolvedExpected>>
  /\ ResolverEngineUnchanged

\* An assertion whose expected value is the reference "[p]" to the path p
\* of the placeholder "{p}" that is the whole of params.
ResolveVariables ==
  /\ expected = NotCalled
  /\ \E p \in Paths :
       /\ params = StringValue(Placeholder(p))
       /\ expected' = StringValue(Reference(p))
       /\ resolvedExpected' = resolveVariables(StringValue(Reference(p)), TestContextOf(execContext))
  /\ UNCHANGED <<params, execContext, processed>>
  /\ ResolverEngineUnchanged

InitResolver ==
  /\ params \in ParamStructures
  /\ execContext \in Contexts
  /\ processed = <<>>
  /\ expected = NotCalled
  /\ resolvedExpected = NotCalled
  /\ NoAssertionCall
  /\ NoConfigCall
  /\ NoRegistryCall
  /\ testCase = <<>>
  /\ testSuccess = TRUEV
  /\ stepStates = [id \in Ids |-> [status |-> "none", result |-> Absent]]
  /\ stepResults = [id \in Ids |-> Absent]
  /\ overallTestSuccess = TRUE
  /\ executingSteps = {}
  /\ enginePc = "validate"
  /\ cur = 1
  /\ raceSet = {}
  /\ stepPc = [id \in Ids |-> "idle"]
  /\ stepRet = [id \in Ids |-> Absent]
  /\ stepErr = [id \in Ids |-> "none"]
  /\ verdict = "none"
  /\ obs = [id \in Ids |-> NoObs]
  /\ invoked = [id \in Ids |-> 0]
  /\ stepEvents = [id \in Ids |-> <<>>]
  /\ runnerPc = "inEngine"
  /\ testEvents = <<"testStart">>
  /\ thrown = NoError
  /\ currentSteps = <<>>
  /\ written = <<>>

NextResolver == ProcessStepVariables \/ ProcessStepVariablesAgain \/ ResolveVariables

SpecResolver == InitResolver /\ [][NextResolver]_vars

\* ------------------------------------------------- claims on the resolver
\* The params that hold the placeholder {p}.
ParamsWithPlaceholder(p) ==
  UNION {ParamsOf(pre \o Placeholder(p) \o post) : pre \in TemplatePrefixes, post \in TemplateSuffixes}

SegmentKey(segment) == Head(split(segment, LBRACKET))

SegmentHasIndex(segment) == LBRACKET \in Chars(segment)

SegmentIndex(segment) == parseInt(split(segment, LBRACKET)[2])

\* The traversal of a result along a path, as the data model has it: a
\* field is read from a mapping, an index from a sequence; a missing key,
\* an index out of range, a scalar or null in the way is a miss.
RECURSIVE TraversalMisses(_, _)
TraversalMisses(value, path) ==
  IF path = <<>> THEN FALSE
  ELSE LET segment == Head(path)
           key == SegmentKey(segment)
       IN IF value.t # "object" \/ ~HasEntry(value.entries, key) THEN TRUE
          ELSE LET field == EntryOf(value.entries, key)
               IN IF ~SegmentHasIndex(segment) THEN TraversalMisses(field, Tail(path))
                  ELSE IF field.t # "array" \/ SegmentIndex(segment) >= Len(field.elements)
                       THEN TRUE
                       ELSE TraversalMisses(field.elements[SegmentIndex(segment) + 1], Tail(path))

\* The placeholder {p} has nothing to resolve to in the context.
Unresolvable(p, context) ==
  LET segments == split(p, DOT)
      first == Head(segments)
  IN IF HasEntry(context.stepResults, first)
     THEN TraversalMisses(EntryOf(context.stepResults, first), Tail(segments))
     ELSE first \notin {<<"testCaseId">>, <<"testCaseName">>}

\* C28: the resolver never raises, and a placeholder whose first segment is
\* neither testCaseId/testCaseName nor the id of a recorded step, or whose
\* traversal misses (missing key, index out of range, scalar or null in
\* the way), is in the output as it was in the input.
C28_UnresolvedPlaceholderLeftUnchanged ==
  Len(processed) >= 1 =>
    /\ processed[1] # TypeError
    /\ \A p \in Paths :
         (params \in ParamsWithPlaceholder(p) /\ Unresolvable(p, execContext))
           => processed[1] = params

\* C29 (as stated): resolving the output of a resolution again, in the same
\* context, returns it unchanged, whatever the params and the context.
C29_ResolverIdempotent ==
  Len(processed) = 2 => processed[2] = processed[1]

\* A `{` in a string the value holds.
RECURSIVE HoldsBrace(_)
HoldsBrace(value) ==
  CASE value.t = "string" -> LBRACE \in Chars(value.chars)
    [] value.t = "array" -> \E i \in 1..Len(value.elements) : HoldsBrace(value.elements[i])
    [] value.t = "object" -> \E i \in 1..Len(value.entries) : HoldsBrace(value.entries[i].value)
    [] OTHER -> FALSE

\* No text the context can put in the place of a placeholder holds a `{`.
BraceFree(context) ==
  /\ LBRACE \notin Chars(context.testCaseId)
  /\ LBRACE \notin Chars(context.testCaseName)
  /\ \A i \in 1..Len(context.stepResults) : ~HoldsBrace(context.stepResults[i].value)

\* No step id holds a double quote, so none reads as JSON text.
PlainStepIds(context) ==
  \A i \in 1..Len(context.stepResults) : QUOTE \notin Chars(context.stepResults[i].key)

\* C29 (amended): in a context whose testCaseId, testCaseName and recorded
\* results hold no `{` in any string and whose step ids hold no double
\* quote, resolving the output of a resolution again returns it unchanged.
C29_ResolverIdempotentOnBraceFreeContext ==
  (Len(processed) = 2 /\ BraceFree(execContext) /\ PlainStepIds(execContext))
    => processed[2] = processed[1]

\* A placeholder was replaced by the JSON text of a result, braces and
\* all, in a context without `{`, and the second resolution kept it.
C29_Witness ==
  /\ Len(processed) = 2
  /\ BraceFree(execContext)
  /\ PlainStepIds(execContext)
  /\ params.t = "string"
  /\ processed[1] # params
  /\ LBRACE \in Chars(processed[1].chars)
  /\ processed[2] = processed[1]

\* The text a value is embedded as: a structure as its JSON text, a scalar
\* as its string form, no value as the placeholder left in place.
EmbeddedText(value, p) ==
  IF value = Undefined THEN Placeholder(p)
  ELSE IF IsObjectType(value) THEN stringify(value)
  ELSE String(value)

\* C30: the expected value "[p]" resolves, in the assertion engine, to the
\* value the resolver puts in the place of "{p}" (compared as the text the
\* resolver embeds; a resolver that raises is left aside), for the paths
\* name, name.child, name.child[idx] and every map of step results.
C30_ReferenceResolvesAsPlaceholder ==
  \A p \in Paths :
    (expected = StringValue(Reference(p)) /\ params = StringValue(Placeholder(p)))
      => LET r == processStepVariables(params, execContext)
         IN r = TypeError \/ r = StringValue(EmbeddedText(resolvedExpected, p))

\* ------------------------------------------------ claims C31 and following
\* C31: during one executeTestCase call the Action of each step is invoked
\* at most once, in Sequential and in DAG mode, whatever the order in which
\* steps complete and the loop iterates.
C31_ActionInvokedAtMostOnce == \A id \in Ids : invoked[id] <= 1

\* A DAG run returned after the Action of every step was invoked, once.
C31_Witness ==
  /\ Returned
  /\ hasStepsWithDependencies
  /\ NSteps >= 2
  /\ \A id \in StepIds : invoked[id] = 1

IsStepEnd(e) == e \in {"stepEnd:true", "stepEnd:false"}

StartsOf(id) == Cardinality({k \in 1..Len(stepEvents[id]) : stepEvents[id][k] = "stepStart"})

EndsOf(id) == Cardinality({k \in 1..Len(stepEvents[id]) : IsStepEnd(stepEvents[id][k])})

NoReporterRaised == \A id \in Ids : ~ReporterRaised(id)

\* C32: when executeTestCase has returned (no reporter call having raised),
\* every reportStepStart(id) was followed by exactly one reportStepEnd(id)
\* and every reportStepEnd(id) was preceded by a reportStepStart(id); steps
\* of an unknown kind and steps whose Action raised are no exception.
C32_StepEventsPaired ==
  (Returned /\ NoReporterRaised) =>
    \A id \in StepIds :
      /\ StartsOf(id) = EndsOf(id)
      /\ StartsOf(id) <= 1
      /\ \A k \in 1..Len(stepEvents[id]) :
           IsStepEnd(stepEvents[id][k]) => \E j \in 1..(k - 1) : stepEvents[id][j] = "stepStart"

\* C33: the DAG loop terminates.  For every validated test case with a
\* dependency, every Action and Reporter call settling, the call of
\* executeStepsWithDependencies returns; the loop does not go round for
\* ever on an empty set of ready steps.
C33_DagLoopTerminates == <>Returned

\* The loop returned from an empty set of ready steps with a step still
\* PENDING: a step whose dependency did not finish.
C33_Witness ==
  /\ Returned
  /\ hasStepsWithDependencies
  /\ \E id \in StepIds : stepStates[id].status = PENDING
  /\ executingSteps = {}

\* C34: when executeTestCase returns true, every step of the test case
\* has status FINISHED (none is PENDING, RUNNING or FAILED) and no entry
\* of stepResults has success = false.
C34_TrueVerdictMeansAllFinished ==
  (Returned /\ verdict = "true") =>
    \A id \in StepIds :
      /\ stepStates[id].status = FINISHED
      /\ stepResults[id] # Absent => stepResults[id].success

\* A DAG run returned true after one step ran its Action and another was
\* excluded by its guard.
C34_Witness ==
  /\ Returned
  /\ verdict = "true"
  /\ hasStepsWithDependencies
  /\ \E id \in StepIds : invoked[id] = 1 /\ stepResults[id] = ActionOk
  /\ \E id \in StepIds : GuardSkipped(id)

\* ------------------------------------------------ AssertionEngine, the rest
\* a === b of two values one of which comes from the YAML file or the
\* context and the other from the response: primitives are equal by type
\* and value, two objects are never the same reference.
StrictEquals(a, b) == a.t \notin {"array", "object"} /\ a = b

evaluateSpecialAssertion(assertion, actualValue) ==
  CASE assertion = <<"shouldNotBeNull">> -> actualValue.t \notin {"null", "undefined"}
    [] assertion = <<"shouldBeNull">> -> actualValue.t \in {"null", "undefined"}
    [] assertion = <<"shouldBeEmpty">> ->
         \/ actualValue = StringValue(<<>>)
         \/ actualValue.t = "array" /\ Len(actualValue.elements) = 0
    [] assertion = <<"shouldNotBeEmpty">> ->
         /\ actualValue # StringValue(<<>>)
         /\ actualValue.t # "array" \/ Len(actualValue.elements) > 0
    [] OTHER -> FALSE

\* One AssertionResult; its message is a function of the other fields.
AssertionResult(path, expectedValue, actualValue, passed) ==
  [field |-> path, expected |-> expectedValue, actual |-> actualValue, passed |-> passed]

handlePrimitiveAssertion(path, expectedValue, actualValue, context) ==
  LET resolved == resolveVariables(expectedValue, context)
  IN <<AssertionResult(path, resolved, actualValue, StrictEquals(resolved, actualValue))>>

\* `${path}[${i}]`, or `[${i}]` at the root.
ItemPath(path, i) == path \o <<LBRACKET, Digits[i + 1], RBRACKET>>

\* `${path}.${key}`, or key at the root.
FieldPath(path, key) == IF path # <<>> THEN path \o <<DOT>> \o key ELSE key

MaxOf(a, b) == IF a >= b THEN a ELSE b

\* compareValues and its three handlers; each returns what it pushes on
\* `results`, in order.
RECURSIVE compareValues(_, _, _, _)
RECURSIVE compareItems(_, _, _, _, _)
RECURSIVE compareFields(_, _, _, _, _)

\* The for-loop of handleArrayAssertion from index i on.
compareItems(path, expectedValue, actualValue, context, i) ==
  IF i >= MaxOf(Len(expectedValue.elements), Len(actualValue.elements)) THEN <<>>
  ELSE compareValues(ItemPath(path, i), GetIndex(expectedValue, i), GetIndex(actualValue, i),
                     context)
       \o compareItems(path, expectedValue, actualValue, context, i + 1)

handleArrayAssertion(path, expectedValue, actualValue, context) ==
  IF Len(expectedValue.elements) = 1 /\ expectedValue.elements[1].t = "string"
  THEN LET assertion == expectedValue.elements[1]
       IN <<AssertionResult(path, assertion, actualValue,
                            evaluateSpecialAssertion(assertion.chars, actualValue))>>
  ELSE IF actualValue.t # "array"
       THEN <<AssertionResult(path, expectedValue, actualValue, FALSE)>>
       ELSE compareItems(path, expectedValue, actualValue, context, 0)

\* The for-in loop of handleObjectAssertion from the i-th key of expected on.
compareFields(path, expectedValue, actualValue, context, i) ==
  IF i > Len(expectedValue.entries) THEN <<>>
  ELSE LET key == expectedValue.entries[i].key
       IN compareValues(FieldPath(path, key), expectedValue.entries[i].value,
                        Get(actualValue, key), context)
          \o compareFields(path, expectedValue, actualValue, context, i + 1)

\* typeof actual is 'object' for an array too.
handleObjectAssertion(path, expectedValue, actualValue, context) ==
  IF actualValue.t \notin {"object", "array"}
  THEN <<AssertionResult(path, expectedValue, actualValue, FALSE)>>
  ELSE compareFields(path, expectedValue, actualValue, context, 1)

compareValues(path, expectedValue, actualValue, context) ==
  IF expectedValue.t = "array" THEN handleArrayAssertion(path, expectedValue, actualValue, context)
  ELSE IF expectedValue.t = "object"
       THEN handleObjectAssertion(path, expectedValue, actualValue, context)
       ELSE handlePrimitiveAssertion(path, expectedValue, actualValue, context)

evaluateAssertions(expectedValue, actualValue, context) ==
  compareValues(<<>>, expectedValue, actualValue, context)

\* assertions.length === 0 || assertions.every(a => a.passed)
SuccessOf(assertions) ==
  Len(assertions) = 0 \/ \A i \in 1..Len(assertions) : assertions[i].passed

\* ---------------------------------- the assertion engine's inputs, bounded
ReservedTokens == {<<"shouldNotBeNull">>, <<"shouldBeNull">>, <<"shouldBeEmpty">>,
                   <<"shouldNotBeEmpty">>}

Five == NumberValue(<<"5">>)

LetterA == StringValue(<<"a">>)

\* "[s.output]", which the context resolves to 5, and "[u.x]", which it
\* does not resolve.
KnownReference == StringValue(<<LBRACKET, "s", DOT, "output", RBRACKET>>)

UnknownReference == StringValue(<<LBRACKET, "u", DOT, "x", RBRACKET>>)

ExpectedPrimitives == {Five, LetterA, Null, BooleanValue(TRUE), KnownReference, UnknownReference}

ExpectedSequences ==
  {ArrayValue(<<StringValue(token)>>) : token \in ReservedTokens}
    \cup {ArrayValue(<<>>), ArrayValue(<<LetterA>>), ArrayValue(<<Five>>),
          ArrayValue(<<Five, LetterA>>)}

ExpectedLeaves == ExpectedPrimitives \cup ExpectedSequences

ExpectedShapes ==
  ExpectedLeaves
    \cup {ObjectValue(<<[key |-> <<"a">>, value |-> l]>>) : l \in ExpectedLeaves}
    \cup {ObjectValue(<<[key |-> <<"a">>, value |-> l], [key |-> <<"b">>, value |-> m]>>) :
            l \in {Five, LetterA}, m \in ExpectedLeaves}
    \cup {ObjectValue(<<[key |-> <<"a">>,
                         value |-> ObjectValue(<<[key |-> <<"b">>, value |-> l]>>)]>>) :
            l \in ExpectedPrimitives}

ActualLeaves ==
  {Undefined, Null, Five, NumberValue(<<"0">>), BooleanValue(TRUE), BooleanValue(FALSE),
   StringValue(<<>>), LetterA, ArrayValue(<<>>), ArrayValue(<<Five>>), ArrayValue(<<LetterA>>),
   ArrayValue(<<Five, LetterA>>), ArrayValue(<<Five, LetterA, Five>>), ObjectValue(<<>>)}

ActualValues ==
  ActualLeaves
    \cup {ObjectValue(<<[key |-> <<"a">>, value |-> l]>>) : l \in ActualLeaves \ {Undefined}}
    \cup {ObjectValue(<<[key |-> <<"a">>, value |-> l], [key |-> k, value |-> m]>>) :
            l \in {Five, LetterA}, k \in {<<"b">>, <<"c">>}, m \in {Five, LetterA, Null}}
    \cup {ObjectValue(<<[key |-> <<"c">>, value |-> Five]>>),
          ObjectValue(<<[key |-> <<"a">>,
                         value |-> ObjectValue(<<[key |-> <<"b">>, value |-> Five]>>)]>>)}

\* The context of the engine: step s has returned 5.
AssertionContext ==
  [testCaseId |-> <<"t">>, testCaseName |-> <<"n">>,
   stepResults |-> <<[key |-> <<"s">>, value |-> ActionResultValue(TRUE, Five)]>>]

AssertionEngineUnchanged ==
  UNCHANGED <<params, processed, resolvedExpected, configVars, registryVars, written,
              currentSteps, thrown, runnerPc, testEvents, testCase, testSuccess, stepStates,
              stepResults, overallTestSuccess, executingSteps, enginePc, cur, raceSet, stepPc,
              stepRet, stepErr, verdict, obs, invoked, stepEvents>>

\* assertionEngine.evaluateAssertions(responseAssertion, actualValue)
EvaluateAssertions ==
  /\ assertionResults = <<>>
  /\ assertionResults' =
       <<evaluateAssertions(expected, assertionActual, TestContextOf(execContext))>>
  /\ UNCHANGED <<expected, execContext, assertionActual, assertionSuccess>>
  /\ AssertionEngineUnchanged

\* const success = ... of RESTApiExecutor.execute
ComputeSuccess ==
  /\ assertionResults # <<>>
  /\ assertionSuccess = "none"
  /\ assertionSuccess' = IF SuccessOf(assertionResults[1]) THEN "true" ELSE "false"
  /\ UNCHANGED <<expected, execContext, assertionActual, assertionResults>>
  /\ AssertionEngineUnchanged

InitAssertion ==
  /\ expected \in ExpectedShapes
  /\ assertionActual \in ActualValues
  /\ execContext = AssertionContext
  /\ assertionResults = <<>>
  /\ assertionSuccess = "none"
  /\ params = "none"
  /\ processed = <<>>
  /\ resolvedExpected = "none"
  /\ NoConfigCall
  /\ NoRegistryCall
  /\ testCase = <<>>
  /\ testSuccess = TRUEV
  /\ stepStates = [id \in Ids |-> [status |-> "none", result |-> Absent]]
  /\ stepResults = [id \in Ids |-> Absent]
  /\ overallTestSuccess = TRUE
  /\ executingSteps = {}
  /\ enginePc = "validate"
  /\ cur = 1
  /\ raceSet = {}
  /\ stepPc = [id \in Ids |-> "idle"]
  /\ stepRet = [id \in Ids |-> Absent]
  /\ stepErr = [id \in Ids |-> "none"]
  /\ verdict = "none"
  /\ obs = [id \in Ids |-> NoObs]
  /\ invoked = [id \in Ids |-> 0]
  /\ stepEvents = [id \in Ids |-> <<>>]
  /\ runnerPc = "inEngine"
  /\ testEvents = <<"testStart">>
  /\ thrown = NoError
  /\ currentSteps = <<>>
  /\ written = <<>>

NextAssertion == EvaluateAssertions \/ ComputeSuccess

SpecAssertion == InitAssertion /\ [][NextAssertion]_vars

\* ----------------------------------------- claims on the assertion engine
Evaluated == assertionResults # <<>>

Results == assertionResults[1]

ExpectsReservedToken ==
  /\ expected.t = "array"
  /\ Len(expected.elements) = 1
  /\ expected.elements[1].t = "string"
  /\ expected.elements[1].chars \in ReservedTokens

\* The results of comparing item i and the items after it, pair by pair.
RECURSIVE PairwiseFrom(_)
PairwiseFrom(i) ==
  IF i >= MaxOf(Len(expected.elements), Len(assertionActual.elements)) THEN <<>>
  ELSE compareValues(<<LBRACKET, Digits[i + 1], RBRACKET>>,
                     IF i < Len(expected.elements) THEN expected.elements[i + 1] ELSE Undefined,
                     IF i < Len(assertionActual.elements) THEN assertionActual.elements[i + 1]
                     ELSE Undefined,
                     TestContextOf(execContext))
       \o PairwiseFrom(i + 1)

\* C35: a sequence-valued expected shape is a special assertion only when it
\* is one reserved token; every other sequence, a one-element sequence
\* holding another string included, is compared positionally with the actual
\* sequence over the longer of the two lengths, with one failure at the path
\* when actual is not a sequence.
C35_OnlyReservedTokensAreSpecial ==
  (Evaluated /\ expected.t = "array") =>
     IF ExpectsReservedToken
     THEN Len(Results) = 1 /\ Results[1].field = <<>> /\ Results[1].expected = expected.elements[1]
     ELSE IF assertionActual.t # "array"
          THEN Len(Results) = 1 /\ Results[1].field = <<>> /\ ~Results[1].passed
          ELSE Results = PairwiseFrom(0)

ExpectsToken(token) == expected = ArrayValue(<<StringValue(token)>>)

IsNonEmpty(value) ==
  \/ value.t = "string" /\ Len(value.chars) > 0
  \/ value.t = "array" /\ Len(value.elements) > 0

IsEmpty(value) ==
  \/ value.t = "string" /\ Len(value.chars) = 0
  \/ value.t = "array" /\ Len(value.elements) = 0

\* C36: shouldNotBeEmpty passes if and only if actual is a non-empty string
\* or a non-empty sequence (so it fails for null, absent, numbers, booleans
\* and mappings), and shouldBeEmpty passes if and only if actual is the
\* empty string or an empty sequence.
C36_EmptinessAssertions ==
  /\ (Evaluated /\ ExpectsToken(<<"shouldNotBeEmpty">>)) =>
       (Results[1].passed <=> IsNonEmpty(assertionActual))
  /\ (Evaluated /\ ExpectsToken(<<"shouldBeEmpty">>)) =>
       (Results[1].passed <=> IsEmpty(assertionActual))

KeysOf(value) == {value.entries[i].key : i \in 1..Len(value.entries)}

\* The key of the mapping a result's field starts with.
RootKeyOf(result) == <<result.field[1]>>

FailsAt(key) == \E i \in 1..Len(Results) : RootKeyOf(Results[i]) = key /\ ~Results[i].passed

\* The expected value of `key` is a primitive that differs from actual's.
Mismatches(key) ==
  LET e == EntryOf(expected.entries, key)
  IN /\ e.t \notin {"array", "object"}
     /\ HasEntry(assertionActual.entries, key)
     /\ resolveVariables(e, TestContextOf(execContext)) # EntryOf(assertionActual.entries, key)

\* C37: with a mapping expected and a mapping actual, keys of actual alone
\* produce no AssertionResult, every expected key that actual misses or
\* whose value mismatches produces a failure, each of them and not only the
\* first, and the outcome is success iff every AssertionResult passed.
C37_MappingAssertion ==
  (Evaluated /\ expected.t = "object" /\ assertionActual.t = "object") =>
     /\ \A i \in 1..Len(Results) : RootKeyOf(Results[i]) \in KeysOf(expected)
     /\ \A key \in KeysOf(expected) :
          (~HasEntry(assertionActual.entries, key) \/ Mismatches(key)) => FailsAt(key)
     /\ assertionSuccess # "none" =>
          (assertionSuccess = "true" <=> \A i \in 1..Len(Results) : Results[i].passed)

\* ------------------------------------------------------------------ Config
UNDERSCORE == "_"

\* c.toUpperCase() of one symbol; the keys are written with a, b, c and x.
UpperCaseOf(c) ==
  CASE c = "a" -> "A" [] c = "b" -> "B" [] c = "c" -> "C" [] c = "x" -> "X" [] OTHER -> c

toUpperCase(s) == [i \in 1..Len(s) |-> UpperCaseOf(s[i])]

\* s.replace(c, d) with a string pattern: the first occurrence only.
replaceFirst(s, c, d) ==
  LET i == IndexOf(s, c)
  IN IF i = 0 THEN s ELSE SubSeq(s, 1, i - 1) \o <<d>> \o SubSeq(s, i + 1, Len(s))

envKeyOf(key) == replaceFirst(toUpperCase(key), DOT, UNDERSCORE)

\* k in value, for own keys of a mapping and indexes of a sequence.
In(k, value) ==
  \/ value.t = "object" /\ HasEntry(value.entries, k)
  \/ value.t = "array" /\ IsIndexKey(k) /\ parseInt(k) < Len(value.elements)

\* The for-of loop of Config.get over keys.
RECURSIVE getWalk(_, _)
getWalk(value, keys) ==
  IF keys = <<>> THEN value
  ELSE IF IsTruthy(value) /\ value.t \in {"object", "array"} /\ In(Head(keys), value)
       THEN getWalk(Get(value, Head(keys)), Tail(keys))
       ELSE Undefined

\* Config.get(key) with process.env = env and instance.config = data.
get(key, env, data) ==
  LET envKey == envKeyOf(key)
  IN IF HasEntry(env, envKey) THEN EntryOf(env, envKey)
     ELSE getWalk(data, split(key, DOT))

\* ------------------------------------------------- Config's inputs, bounded
ConfigKeys ==
  {<<"a">>, <<"a", DOT, "b">>, <<"a", DOT, "b", DOT, "c">>, <<"a", DOT, "x">>, <<"x">>,
   <<"a", DOT, "b", DOT, "x">>}

\* Names process.env may hold; each value is a string.
EnvNames ==
  {<<"A">>, <<"A", UNDERSCORE, "B">>, <<"A", UNDERSCORE, "B", UNDERSCORE, "C">>,
   <<"A", UNDERSCORE, "B", DOT, "C">>}

EnvEntry(name) == [key |-> name, value |-> StringValue(<<"e">> \o name)]

Environments ==
  {<<>>} \cup {<<EnvEntry(n)>> : n \in EnvNames}
    \cup {<<EnvEntry(p[1]), EnvEntry(p[2])>> : p \in {q \in EnvNames \X EnvNames : q[1] # q[2]}}

One == NumberValue(<<"1">>)

ConfigObjects ==
  {ObjectValue(<<[key |-> <<"a">>, value |-> One]>>),
   ObjectValue(<<[key |-> <<"a">>, value |-> ObjectValue(<<[key |-> <<"b">>, value |-> One]>>)]>>),
   ObjectValue(<<[key |-> <<"a">>,
                  value |-> ObjectValue(<<[key |-> <<"b">>,
                                           value |-> ObjectValue(<<[key |-> <<"c">>,
                                                                    value |-> One]>>)]>>)]>>),
   ObjectValue(<<[key |-> <<"a">>, value |-> Null]>>)}

ConfigEngineUnchanged ==
  UNCHANGED <<params, execContext, processed, expected, resolvedExpected, assertionVars,
              registryVars, written, currentSteps, thrown, runnerPc, testEvents, testCase,
              testSuccess, stepStates, stepResults, overallTestSuccess, executingSteps,
              enginePc, cur, raceSet, stepPc, stepRet, stepErr, verdict, obs, invoked,
              stepEvents>>

\* Config.load(config) while nothing is loaded yet.
ConfigLoad ==
  /\ configData = ObjectValue(<<>>)
  /\ configValue = <<>>
  /\ configData' \in ConfigObjects
  /\ UNCHANGED <<environment, configKey, configValue>>
  /\ ConfigEngineUnchanged

\* Config.get(configKey)
ConfigGet ==
  /\ configValue = <<>>
  /\ configValue' = <<get(configKey, environment, configData)>>
  /\ UNCHANGED <<environment, configData, configKey>>
  /\ ConfigEngineUnchanged

InitConfig ==
  /\ environment \in Environments
  /\ configData = ObjectValue(<<>>)
  /\ configKey \in ConfigKeys
  /\ configValue = <<>>
  /\ params = "none"
  /\ execContext = "none"
  /\ processed = <<>>
  /\ expected = "none"
  /\ resolvedExpected = "none"
  /\ NoAssertionCall
  /\ NoRegistryCall
  /\ testCase = <<>>
  /\ testSuccess = TRUEV
  /\ stepStates = [id \in Ids |-> [status |-> "none", result |-> Absent]]
  /\ stepResults = [id \in Ids |-> Absent]
  /\ overallTestSuccess = TRUE
  /\ executingSteps = {}
  /\ enginePc = "validate"
  /\ cur = 1
  /\ raceSet = {}
  /\ stepPc = [id \in Ids |-> "idle"]
  /\ stepRet = [id \in Ids |-> Absent]
  /\ stepErr = [id \in Ids |-> "none"]
  /\ verdict = "none"
  /\ obs = [id \in Ids |-> NoObs]
  /\ invoked = [id \in Ids |-> 0]
  /\ stepEvents = [id \in Ids |-> <<>>]
  /\ runnerPc = "inEngine"
  /\ testEvents = <<"testStart">>
  /\ thrown = NoError
  /\ currentSteps = <<>>
  /\ written = <<>>

NextConfig == ConfigLoad \/ ConfigGet

SpecConfig == InitConfig /\ [][NextConfig]_vars

\* --------------------------------------------------------- claim on Config
\* The key upper-cased with every '.' replaced by '_'.
EnvProjection(key) ==
  [i \in 1..Len(key) |-> IF key[i] = DOT THEN UNDERSCORE ELSE UpperCaseOf(key[i])]

\* The value at the dotted path in the loaded map; undefined when a segment
\* is missing.
RECURSIVE ValueAt(_, _)
ValueAt(value, keys) ==
  IF keys = <<>> THEN value
  ELSE IF value.t = "object" /\ HasEntry(value.entries, Head(keys))
       THEN ValueAt(EntryOf(value.entries, Head(keys)), Tail(keys))
       ELSE Undefined

\* C38: Config.get(key) returns the environment variable named by the key
\* upper-cased with every '.' replaced by '_' when it is set, otherwise the
\* value at the dotted path in the loaded configuration map, or undefined
\* when a path segment is missing.
C38_ConfigGetPrefersEnvironment ==
  configValue # <<>> =>
     configValue[1] =
        IF HasEntry(environment, EnvProjection(configKey))
        THEN EntryOf(environment, EnvProjection(configKey))
        ELSE ValueAt(configData, split(configKey, DOT))

\* ---------------------------------------------------------- ActionRegistry
RegistryKinds == {"k1", "k2"}

RegistryActions == {"A1", "A2"}

\* What Map.get returns for a key the Map does not hold.
NoAction == "undefined"

MaxRegisterCalls == 3

\* new Map()
EmptyMap == [kind \in RegistryKinds |-> NoAction]

\* instance.actions.has(kind)
Has(map, kind) == map[kind] # NoAction

\* ActionRegistry.register without the duplicate check.
register_Overwrites(map, kind, action, force) ==
  [threw |-> FALSE, map |-> [map EXCEPT ![kind] = action]]

\* ActionRegistry.register(kind, action, force) on the Map `map`: whether it
\* threw, and the Map afterwards.
register(map, kind, action, force) ==
  IF Has(map, kind) /\ ~force
  THEN [threw |-> TRUE, map |-> map]
  ELSE [threw |-> FALSE, map |-> [map EXCEPT ![kind] = action]]

\* ActionRegistry.get(kind)
registryGet(map, kind) == map[kind]

\* ActionRegistry.getAll(): a new Map with the entries of instance.actions.
\* `aliased` tells whether the Map returned is instance.actions itself.
getAll(map) == [returned |-> TRUE, aliased |-> FALSE, map |-> map]

\* Before the first call of getAll.
NotReturned == [returned |-> FALSE, aliased |-> FALSE, map |-> EmptyMap]

RegistryEngineUnchanged ==
  UNCHANGED <<params, execContext, processed, expected, resolvedExpected, assertionVars,
              configVars, written, currentSteps, thrown, runnerPc, testEvents, testCase,
              testSuccess, stepStates, stepResults, overallTestSuccess, executingSteps,
              enginePc, cur, raceSet, stepPc, stepRet, stepErr, verdict, obs, invoked,
              stepEvents>>

\* A call ActionRegistry.register(kind, action, force); the call is recorded
\* with whether the kind was registered before it and whether it threw.
Register ==
  /\ Len(registerCalls) < MaxRegisterCalls
  /\ \E kind \in RegistryKinds, action \in RegistryActions, force \in BOOLEAN :
       LET outcome == register(actions, kind, action, force)
       IN /\ actions' = outcome.map
          /\ registerCalls' =
               Append(registerCalls,
                      [kind |-> kind, action |-> action, force |-> force,
                       registered |-> Has(actions, kind), threw |-> outcome.threw])
  /\ UNCHANGED allActions
  /\ RegistryEngineUnchanged

\* A call ActionRegistry.getAll(); its caller keeps the Map.
GetAll ==
  /\ allActions' = getAll(actions)
  /\ allActions' # allActions
  /\ UNCHANGED <<actions, registerCalls>>
  /\ RegistryEngineUnchanged

\* The caller of getAll sets or deletes an entry of the Map it was given;
\* the registry's Map changes with it when the two are one object.
MutateAllActions ==
  /\ allActions.returned
  /\ \E kind \in RegistryKinds, action \in RegistryActions \cup {NoAction} :
       /\ allActions.map[kind] # action
       /\ allActions' = [allActions EXCEPT !.map[kind] = action]
       /\ actions' = IF allActions.aliased THEN [actions EXCEPT ![kind] = action] ELSE actions
  /\ UNCHANGED registerCalls
  /\ RegistryEngineUnchanged

InitRegistry ==
  /\ actions = EmptyMap
  /\ registerCalls = <<>>
  /\ allActions = NotReturned
  /\ params = "none"
  /\ execContext = "none"
  /\ processed = <<>>
  /\ expected = "none"
  /\ resolvedExpected = "none"
  /\ NoAssertionCall
  /\ NoConfigCall
  /\ testCase = <<>>
  /\ testSuccess = TRUEV
  /\ stepStates = [id \in Ids |-> [status |-> "none", result |-> Absent]]
  /\ stepResults = [id \in Ids |-> Absent]
  /\ overallTestSuccess = TRUE
  /\ executingSteps = {}
  /\ enginePc = "validate"
  /\ cur = 1
  /\ raceSet = {}
  /\ stepPc = [id \in Ids |-> "idle"]
  /\ stepRet = [id \in Ids |-> Absent]
  /\ stepErr = [id \in Ids |-> "none"]
  /\ verdict = "none"
  /\ obs = [id \in Ids |-> NoObs]
  /\ invoked = [id \in Ids |-> 0]
  /\ stepEvents = [id \in Ids |-> <<>>]
  /\ runnerPc = "inEngine"
  /\ testEvents = <<"testStart">>
  /\ thrown = NoError
  /\ currentSteps = <<>>
  /\ written = <<>>

NextRegistry == Register \/ GetAll \/ MutateAllActions

SpecRegistry == InitRegistry /\ [][NextRegistry]_vars

\* ------------------------------------------------- claim on ActionRegistry
\* The registrations of `kind` that did not throw.
SuccessfulCalls(kind) ==
  {i \in 1..Len(registerCalls) : registerCalls[i].kind = kind /\ ~registerCalls[i].threw}

LastRegistered(kind) ==
  IF SuccessfulCalls(kind) = {} THEN NoAction
  ELSE registerCalls[CHOOSE i \in SuccessfulCalls(kind) :
                       \A j \in SuccessfulCalls(kind) : j <= i].action

\* C39: register on a kind already registered throws, and leaves the
\* registered Action as it is, unless force is true, and then replaces it;
\* after any register calls get(kind) is the Action of the last successful
\* registration of the kind, undefined for a kind never registered; and
\* changing the Map getAll returned does not change the registry.
C39_RegistryKeepsLastSuccessfulRegistration ==
  /\ \A i \in 1..Len(registerCalls) :
       registerCalls[i].threw <=> (registerCalls[i].registered /\ ~registerCalls[i].force)
  /\ \A kind \in RegistryKinds : registryGet(actions, kind) = LastRegistered(kind)

\* A duplicate registration threw, a forced one replaced an Action, and the
\* Map getAll returned has since been changed by its caller.
C39_Witness ==
  /\ \E i \in 1..Len(registerCalls) : registerCalls[i].threw
  /\ \E i \in 1..Len(registerCalls) :
       /\ registerCalls[i].registered /\ registerCalls[i].force
       /\ registryGet(actions, registerCalls[i].kind) = registerCalls[i].action
       /\ \E j \in 1..(i - 1) :
            /\ registerCalls[j].kind = registerCalls[i].kind
            /\ registerCalls[j].action # registerCalls[i].action
  /\ allActions.returned
  /\ allActions.map # actions

====
